---- MODULE Spec2Model ----
(***************************************************************************)
(* Model of the selection-and-generation pipeline of BeliefForgeScout.     *)
(*                                                                         *)
(*   SpecVoice : VoiceValidator.validate as a pure function of a text, a   *)
(*               platform and the strict_mode setting                      *)
(*   Spec      : OpenRouterClient (budget guard, rate limit, tenacity      *)
(*               retry, cost tracking) driven by direct callers and by     *)
(*               ReplyGenerator.generate_reply                             *)
(*                                                                         *)
(* Money is counted in micro-dollars, so that the per-million-token rates  *)
(* of the client are exact integers; time is counted in seconds.           *)
(***************************************************************************)
EXTENDS Integers, Sequences, FiniteSets, TLC

VARIABLES
    \* ---- VoiceValidator (src/src/voice/validator.py)
    strict_mode,        \* self.strict_mode, read once from the configuration
    hash_seed,          \* the process's string-hash seed: fixes the order of list(set(..))
    v_text,             \* the text handed to validate
    v_platform,         \* the platform handed to validate
    v_result,           \* the dictionary validate returned, or NoResult
    \* ---- OpenRouterClient (src/src/llm/openrouter_client.py)
    daily_budget_usd,   \* llm_config.rate_limits['daily_budget_usd'], in micro-dollars
    min_request_interval, \* 60 / requests_per_minute, in seconds
    total_cost_usd,     \* self.total_cost_usd, in micro-dollars
    total_tokens,       \* self.total_tokens
    last_request_time,  \* self.last_request_time
    now,                \* time.time()
    cpc,                \* position inside generate_completion
    attempt_number,     \* tenacity's attempt number of the running invocation
    c_caller,           \* who invoked generate_completion: "direct" or "generator"
    c_result,           \* the dictionary generate_completion returned, or NoResult
    c_exc,              \* the exception generate_completion raised, or "none"
    \* ---- ReplyGenerator.generate_reply (src/src/llm/reply_generator.py)
    gpc,                \* position inside generate_reply
    g_platform,         \* tweet.get('platform')
    max_attempts,       \* the max_attempts argument
    attempt,            \* the loop variable
    total_cost,         \* the local total_cost, in micro-dollars
    user_prompt,        \* the user prompt of the next LLM call
    g_result,           \* the dictionary generate_reply returned, or NoResult
    g_exc,              \* the exception generate_reply raised, or "none"
    \* ---- observation of the run (history, not program state)
    http_requests,      \* HTTP requests issued by the running generate_completion invocation
    invocation_sleeps,  \* rate-limit sleeps of the running generate_completion invocation
    request_log,        \* what the last step did: "none", "request", "sleep+request"
    returned_cost,      \* sum of cost_usd over the results returned since construction/reset
    returned_formula,   \* sum of prompt*3 + completion*15 over the same results
    returned_tokens,    \* sum of tokens.total over the same results
    g_calls,            \* generate_completion calls made by the running generate_reply
    g_costs,            \* sum of the costs the client computed for those calls
    g_validated,        \* the validator's verdict on each attempt of the running generate_reply
    \* ---- DeduplicationManager (src/src/filtering/deduplication.py)
    utcnow,             \* datetime.utcnow(), in hours
    replied_tweets,     \* the rows of the replied_tweets table
    d_call,             \* the last call made on the manager, with its arguments
    d_result,           \* the tuple check_tweet_eligibility returned, or NoResult
    d_exc,              \* the exception the last call raised, or "none"
    d_queries,          \* the queries the last check_tweet_eligibility ran, in order
    d_prev,             \* observation: what the call before returned, when the last call
                        \* repeated it (same check, same instant), or NoResult
    \* ---- BotOrchestrator sessions (src/src/core/orchestrator.py)
    session_no,         \* the number of orchestrators constructed: the running session's id
    spc,                \* position inside run_session
    posts,              \* the local list posts / posts_with_replies of run_session
    reply_queue,        \* the rows of the reply_queue table
    \* ---- BaseFilter (src/src/filtering/base_filter.py)
    f_tweet,            \* the post handed to filter_tweet
    f_result,           \* what filter_tweet returned or raised, or NoResult
    b_tweets,           \* the list handed to filter_tweets_batch
    b_result,           \* what filter_tweets_batch returned or raised, or NoResult
    \* ---- CommercialFilter (src/src/filtering/commercial_filter.py)
    a_post,             \* the post handed to analyze_post
    a_result,           \* the analysis analyze_post returned, or NoResult
    \* ---- PostScorer (src/src/scoring/post_scorer.py)
    s_now,              \* datetime.now(), in seconds
    s_post,             \* the post handed to score_post
    s_result,           \* what the first score_post call returned, and when
    s_again,            \* what the second score_post call returned, and when
    \* ---- BotOrchestrator.run_session (src/src/core/orchestrator.py)
    r_pc,               \* idle, or the step run_session is about to take
    r_no,               \* the sessions started so far; the session id
    r_status,           \* stats['status'] of the last run
    r_posts,            \* the working list of the run
    r_i,                \* the position of the loop of step 6 or 7
    r_sub,              \* what step 7 does next with its post
    r_with_replies,     \* posts_with_replies
    r_calls,            \* the services the run has called
    r_scraped,          \* the list step 1 returned
    r_handed,           \* the ids handed to generate_reply, in order
    r_queued,           \* the ids whose queue entry was committed, in order
    r_sent,             \* sent_count of _send_for_approval
    scraped_tweets,     \* the ScrapedTweet table
    approval_queue,     \* the ReplyQueue table
    \* ---- TimingController (src/src/timing/scheduler.py)
    t_active_hours,     \* schedule.active_hours, in minutes of the day
    t_check_time,       \* the instant handed to is_active_hours, in minutes (UTC)
    t_utc_offset,       \* the offset of the timezone at that instant, in minutes
    t_result,           \* what is_active_hours returned, or NoResult
    \* ---- ScoutDB (src/scout/core/db.py)
    processed_posts,    \* the rows of the processed_posts table
    db_clock,           \* datetime.now() of the database's host, counted in writes
    db_marked,          \* history: the ids mark_processed was ever called for
    db_answer,          \* the answer of the last is_processed since the last write
    \* ---- PostScorer.filter_and_rank called on its own
    fr_posts,           \* the posts handed to filter_and_rank
    fr_apply_threshold, \* its apply_threshold argument
    fr_result,          \* the list it returned, or NoResult
    \* ---- threads calling generate_completion on one client
    th_pc,              \* each thread's position inside generate_completion
    th_usage,           \* each thread's local prompt_tokens, completion_tokens, total_tokens
    th_reg,             \* each thread's operand stack: the attribute value it loaded
    th_calls,           \* generate_completion calls begun so far
    \* ---- the sessions of one process (src/src/main.py); history, not program state
    p_sessions,         \* sessions started so far
    p_spent,            \* cost of the LLM calls of the sessions that are over
    p_over,             \* the running session started with the budget used up
    \* ---- configuration (bot_config.deduplication.engagement_limits)
    max_replies_per_session,
    \* ---- TimingController.get_time_until_active (src/src/timing/scheduler.py)
    w_active_hours,     \* active_start and active_end
    w_from_time,        \* from_time, in minutes of UTC
    w_zone,             \* the offsets of the timezone around from_time
    w_result            \* what the call returned

voiceVars == <<strict_mode, hash_seed, v_text, v_platform, v_result>>
clientVars == <<daily_budget_usd, min_request_interval, total_cost_usd, total_tokens,
                last_request_time, now, cpc, attempt_number, c_caller, c_result, c_exc>>
genVars == <<gpc, g_platform, max_attempts, attempt, total_cost, user_prompt,
             g_result, g_exc>>
obsVars == <<http_requests, invocation_sleeps, request_log, returned_cost,
             returned_formula, returned_tokens, g_calls, g_costs, g_validated>>
dedupVars == <<utcnow, replied_tweets, d_call, d_result, d_exc, d_queries, d_prev>>
sessionVars == <<session_no, spc, posts, reply_queue>>
llmVars == <<voiceVars, clientVars, genVars, obsVars>>
filterVars == <<f_tweet, f_result, b_tweets, b_result>>
commercialVars == <<a_post, a_result>>
scoreVars == <<s_now, s_post, s_result, s_again>>
gateVars == <<t_active_hours, t_check_time, t_utc_offset, t_result>>
dbVars == <<processed_posts, db_clock, db_marked, db_answer>>
rankVars == <<fr_posts, fr_apply_threshold, fr_result>>
threadVars == <<th_pc, th_usage, th_reg, th_calls>>
processVars == <<p_sessions, p_spent, p_over>>
configVars == <<max_replies_per_session>>
windowVars == <<w_active_hours, w_from_time, w_zone, w_result>>
pureVars == <<filterVars, commercialVars, scoreVars, gateVars, dbVars, rankVars,
             threadVars, processVars, configVars, windowVars>>
runVars == <<r_pc, r_no, r_status, r_posts, r_i, r_sub, r_with_replies, r_calls,
             r_scraped, r_handed, r_queued, r_sent, scraped_tweets,
             approval_queue>>
stageVars == <<dedupVars, sessionVars, pureVars, runVars>>
vars == <<voiceVars, clientVars, genVars, obsVars, stageVars>>

NoResult == [none |-> TRUE]

(***************************************************************************)
(* Texts.  A text is a sequence of phrases joined by single spaces; every  *)
(* phrase is a literal piece of reply text, and what each rule of the      *)
(* validator finds in it is tabulated below.  "" at either end of the      *)
(* sequence is leading or trailing whitespace.                             *)
(***************************************************************************)
MaxTextLen == 3

Phrases == {"perhaps", "great!", "a - b - c", "color", "disruptive", "buy now",
            "#tag", "emoji emoji", "long passage", "huge passage", ""}

\* len(phrase); an emoji is one character, "long passage" stands for 150 and
\* "huge passage" for 3000 characters of plain lower-case British prose.
PhraseLen(p) ==
    CASE p = "perhaps" -> 7
      [] p = "great!" -> 6
      [] p = "a - b - c" -> 9
      [] p = "color" -> 5
      [] p = "disruptive" -> 10
      [] p = "buy now" -> 7
      [] p = "#tag" -> 4
      [] p = "emoji emoji" -> 3
      [] p = "long passage" -> 150
      [] p = "huge passage" -> 3000
      [] OTHER -> 0

Texts == UNION {[1..n -> Phrases] : n \in 0..MaxTextLen}

\* the sum of a sequence of numbers
RECURSIVE SumSeq(_)
SumSeq(ns) == IF Len(ns) = 0 THEN 0 ELSE Head(ns) + SumSeq(Tail(ns))

\* len(text)
CharCount(text) ==
    IF Len(text) = 0 THEN 0
    ELSE SumSeq([i \in 1..Len(text) |-> PhraseLen(text[i])]) + (Len(text) - 1)

\* str.strip(): leading and trailing whitespace removed
RECURSIVE LStrip(_)
LStrip(text) ==
    IF Len(text) > 0 /\ Head(text) = "" THEN LStrip(Tail(text)) ELSE text

RECURSIVE RStrip(_)
RStrip(text) ==
    IF Len(text) > 0 /\ text[Len(text)] = ""
    THEN RStrip(SubSeq(text, 1, Len(text) - 1)) ELSE text

Strip(text) == RStrip(LStrip(text))

(***************************************************************************)
(* VoiceValidator                                                          *)
(***************************************************************************)
PreferredMax == 100
AbsoluteMax == 280
RedditPreferredMax == 1000
RedditMax == 5000
ViolationPenalty == 15
WarningPenalty == 5
LenientMinScore == 60

Platforms == {"twitter", "reddit", "none"}

\* is_reddit
IsReddit(platform) == platform = "reddit"

PrefMax(platform) == IF IsReddit(platform) THEN RedditPreferredMax ELSE PreferredMax

AbsMax(platform) == IF IsReddit(platform) THEN RedditMax ELSE AbsoluteMax

\* '!' in text
HasExclamation(text) == \E i \in 1..Len(text) : text[i] = "great!"

\* text.count(' - '): the joining spaces never complete a ' - ' of their own
PhraseHyphens(p) == IF p = "a - b - c" THEN 2 ELSE 0

HyphenCount(text) == SumSeq([i \in 1..Len(text) |-> PhraseHyphens(text[i])])

\* the full matches of the AMERICAN_SPELLINGS patterns in one phrase
PhraseAmerican(p) == IF p = "color" THEN {"color"} ELSE {}

\* the CORPORATE_JARGON entries that are substrings of one phrase
PhraseJargon(p) == IF p = "disruptive" THEN {"disrupt", "disruptive"} ELSE {}

\* the SALESY_LANGUAGE patterns that match in one phrase
PhraseSalesy(p) == IF p = "buy now" THEN {"buy now"} ELSE {}

PhraseEmoji(p) == IF p = "emoji emoji" THEN 2 ELSE 0

PhraseHashes(p) == IF p = "#tag" THEN 1 ELSE 0

\* The position of a string in the iteration order of a Python set of strings
\* depends on the process's hash seed; two seeds stand for the two orders that
\* a two-element set can take.
WordRank(w) ==
    CASE w = "color" -> 1
      [] w = "disrupt" -> 2
      [] w = "disruptive" -> 3
      [] w = "buy now" -> 4
      [] OTHER -> 0

Before(a, b, seed) ==
    IF seed = 0 THEN WordRank(a) < WordRank(b) ELSE WordRank(a) > WordRank(b)

\* list(set(found))
RECURSIVE SetToList(_, _)
SetToList(S, seed) ==
    IF S = {} THEN <<>>
    ELSE LET first == CHOOSE a \in S : \A b \in S \ {a} : Before(a, b, seed)
         IN <<first>> \o SetToList(S \ {first}, seed)

CheckAmericanSpellings(text, seed) ==
    SetToList(UNION {PhraseAmerican(text[i]) : i \in 1..Len(text)}, seed)

CheckCorporateJargon(text, seed) ==
    SetToList(UNION {PhraseJargon(text[i]) : i \in 1..Len(text)}, seed)

\* one entry per matching pattern, in the order of SALESY_LANGUAGE
CheckSalesyLanguage(text) ==
    SetToList(UNION {PhraseSalesy(text[i]) : i \in 1..Len(text)}, 0)

CountEmoji(text) == SumSeq([i \in 1..Len(text) |-> PhraseEmoji(text[i])])

HashtagCount(text) == SumSeq([i \in 1..Len(text) |-> PhraseHashes(text[i])])

Tagged(kind, words) == [i \in 1..Len(words) |-> <<kind, words[i]>>]

ExclamationViolation == <<"Contains exclamation mark(s)", "">>

\* the violations list, in the order validate appends to it
Violations(text, platform, seed) ==
    (IF CharCount(text) > AbsMax(platform)
        THEN << <<"Exceeds absolute max", "">> >> ELSE <<>>)
    \o (IF HasExclamation(text) THEN <<ExclamationViolation>> ELSE <<>>)
    \o Tagged("American spelling", CheckAmericanSpellings(text, seed))
    \o Tagged("Corporate jargon", CheckCorporateJargon(text, seed))
    \o Tagged("Salesy language", CheckSalesyLanguage(text))
    \o (IF HashtagCount(text) > 1
        THEN << <<"Too many hashtags", "">> >> ELSE <<>>)

\* the warnings list, in the order validate appends to it
Warnings(text, platform) ==
    (IF CharCount(text) <= AbsMax(platform) /\ CharCount(text) > PrefMax(platform)
        THEN <<"Exceeds preferred max">> ELSE <<>>)
    \o (IF HyphenCount(text) > 1 THEN <<"Multiple hyphens used">> ELSE <<>>)
    \o (IF CountEmoji(text) > 1 THEN <<"Too many emoji">> ELSE <<>>)
    \o (IF HashtagCount(text) = 1 THEN <<"Contains 1 hashtag (prefer 0)">> ELSE <<>>)

Max(a, b) == IF a >= b THEN a ELSE b

ScorePenaltiesSwapped(violations, warnings) ==
    Max(0, 100 - Len(violations) * WarningPenalty - Len(warnings) * ViolationPenalty)

\* score = max(0, 100 - 15 * len(violations) - 5 * len(warnings))
Score(violations, warnings) ==
    Max(0, 100 - Len(violations) * ViolationPenalty - Len(warnings) * WarningPenalty)

\* is_valid = len(violations) == 0 if self.strict_mode else score >= 60
IsValid(violations, score, strict) ==
    IF strict THEN Len(violations) = 0 ELSE score >= LenientMinScore

Validate(text, platform, strict, seed) ==
    LET violations == Violations(text, platform, seed)
        warnings == Warnings(text, platform)
        score == Score(violations, warnings)
    IN [is_valid |-> IsValid(violations, score, strict),
        score |-> score,
        violations |-> violations,
        warnings |-> warnings,
        character_count |-> CharCount(text)]

(***************************************************************************)
(* OpenRouterClient                                                        *)
(***************************************************************************)
Million == 1000000
InputRate == 3
OutputRate == 15
RequestsPerMinute == 20
StopAfterAttempt == 3
WaitMultiplier == 1
WaitMin == 2
WaitMax == 10

StartTime == 100
MaxElapsed == 2

\* daily_budget_usd of the configuration, in dollars: none, one that a single
\* call can reach exactly, and the test configuration's
BudgetsUsd == {0, 30, 50}

\* the "usage" object of a response: absent (every count defaults to 0), or
\* token counts in millions as in test_budget_check_on_every_request
Usages == {[prompt_tokens |-> 0, completion_tokens |-> 0, total_tokens |-> 0],
           [prompt_tokens |-> 1 * Million, completion_tokens |-> 1 * Million,
            total_tokens |-> 2 * Million],
           [prompt_tokens |-> 5 * Million, completion_tokens |-> 1 * Million,
            total_tokens |-> 6 * Million]}

\* the message content of a response: a compliant reply, the same with
\* surrounding whitespace, one with an exclamation mark (one violation), and one
\* with an exclamation mark and jargon (three violations)
Contents == {<<"perhaps">>, <<"", "perhaps", "">>, <<"great!">>,
             <<"great!", "disruptive">>}

\* what client.post / raise_for_status / the parsing of the body can raise
HttpErrors == {"timeout", "network", "http_status", "malformed"}

BudgetExceededStrict == total_cost_usd > daily_budget_usd

BudgetNeverChecked == FALSE

\* if self.total_cost_usd >= daily_budget
BudgetExceeded == total_cost_usd >= daily_budget_usd

EstimatedCostFlatRate(prompt_tokens, completion_tokens) ==
    (prompt_tokens + completion_tokens) * InputRate

\* estimated_cost = prompt_tokens / 10^6 * 3 + completion_tokens / 10^6 * 15,
\* in micro-dollars
EstimatedCost(prompt_tokens, completion_tokens) ==
    prompt_tokens * InputRate + completion_tokens * OutputRate

SleepFullInterval ==
    IF now - last_request_time < min_request_interval
    THEN min_request_interval ELSE 0

\* _rate_limit: the time slept before the request
SleepTime ==
    IF now - last_request_time < min_request_interval
    THEN min_request_interval - (now - last_request_time)
    ELSE 0

RetryAnyHttpError(exc) == exc \in {"timeout", "network", "http_status"}

\* retry_if_exception_type((httpx.TimeoutException, httpx.NetworkError))
RetryIfExceptionType(exc) == exc \in {"timeout", "network"}

StopOneLate(n) == n > StopAfterAttempt

\* stop_after_attempt(3)
StopNow(n) == n >= StopAfterAttempt

RECURSIVE Pow2(_)
Pow2(n) == IF n <= 0 THEN 1 ELSE 2 * Pow2(n - 1)

Min(a, b) == IF a <= b THEN a ELSE b

\* wait_exponential(multiplier=1, min=2, max=10) after attempt n
WaitExponential(n) == Max(WaitMin, Min(WaitMultiplier * Pow2(n - 1), WaitMax))

\* the caller enters the decorated generate_completion
BeginCompletion(caller) ==
    /\ cpc' = "attempt"
    /\ attempt_number' = 1
    /\ c_caller' = caller
    /\ c_result' = NoResult
    /\ c_exc' = "none"
    /\ http_requests' = 0
    /\ invocation_sleeps' = 0
    /\ request_log' = "none"
    /\ UNCHANGED <<daily_budget_usd, min_request_interval, total_cost_usd,
                   total_tokens, last_request_time, now>>
    /\ UNCHANGED <<returned_cost, returned_formula, returned_tokens>>

\* the invocation is over: its frame (tenacity's attempt number, the result or
\* exception handed to the caller) is gone
EndCompletion ==
    /\ cpc' = "idle"
    /\ attempt_number' = 0
    /\ c_caller' = "direct"
    /\ c_result' = NoResult
    /\ c_exc' = "none"
    /\ http_requests' = 0
    /\ invocation_sleeps' = 0
    /\ request_log' = "none"
    /\ UNCHANGED <<daily_budget_usd, min_request_interval, total_cost_usd,
                   total_tokens, last_request_time, now>>
    /\ UNCHANGED <<returned_cost, returned_formula, returned_tokens>>

\* a caller other than the reply generator calls generate_completion
CallGenerateCompletion ==
    /\ gpc = "idle"
    /\ cpc = "idle"
    /\ now < StartTime + MaxElapsed
    /\ BeginCompletion("direct")
    /\ UNCHANGED <<stageVars, voiceVars, genVars, g_calls, g_costs, g_validated>>

\* one execution of the body up to the request: budget check, rate limit, post
AttemptBody ==
    /\ cpc = "attempt"
    /\ IF BudgetExceeded
       THEN /\ cpc' = "raised"
            /\ c_exc' = "budget"
            /\ request_log' = "none"
            /\ UNCHANGED <<now, last_request_time, http_requests, invocation_sleeps>>
       ELSE /\ now' = now + SleepTime
            /\ last_request_time' = now'
            /\ cpc' = "request"
            /\ c_exc' = "none"
            /\ http_requests' = http_requests + 1
            /\ invocation_sleeps' = invocation_sleeps + (IF SleepTime > 0 THEN 1 ELSE 0)
            /\ request_log' = IF SleepTime > 0 THEN "sleep+request" ELSE "request"
    /\ UNCHANGED <<daily_budget_usd, min_request_interval, total_cost_usd,
                   total_tokens, attempt_number, c_caller, c_result>>
    /\ UNCHANGED <<returned_cost, returned_formula, returned_tokens>>
    /\ UNCHANGED <<stageVars, voiceVars, genVars, g_calls, g_costs, g_validated>>

\* the response arrives and parses: usage is tracked and the result returned
HttpSuccess ==
    /\ cpc = "request"
    /\ \E usage \in Usages, content \in Contents :
        LET estimated_cost ==
                EstimatedCost(usage.prompt_tokens, usage.completion_tokens)
        IN /\ total_tokens' = total_tokens + usage.total_tokens
           /\ total_cost_usd' = total_cost_usd + estimated_cost
           /\ c_result' = [content |-> content,
                           tokens |-> [prompt |-> usage.prompt_tokens,
                                       completion |-> usage.completion_tokens,
                                       total |-> usage.total_tokens],
                           cost_usd |-> estimated_cost]
    /\ cpc' = "returned"
    /\ request_log' = "none"
    /\ returned_cost' = returned_cost + c_result'.cost_usd
    /\ returned_formula' = returned_formula
            + c_result'.tokens.prompt * InputRate
            + c_result'.tokens.completion * OutputRate
    /\ returned_tokens' = returned_tokens + c_result'.tokens.total
    /\ g_costs' = IF c_caller = "generator"
                  THEN g_costs + c_result'.cost_usd ELSE g_costs
    /\ UNCHANGED <<daily_budget_usd, min_request_interval, last_request_time, now,
                   attempt_number, c_caller, c_exc>>
    /\ UNCHANGED <<http_requests, invocation_sleeps>>
    /\ UNCHANGED <<stageVars, voiceVars, genVars, g_calls, g_validated>>

\* the request fails: tenacity retries a transient error while attempts remain,
\* and re-raises anything else
HttpFailure ==
    /\ cpc = "request"
    /\ \E exc \in HttpErrors :
        /\ c_exc' = exc
        /\ cpc' = IF RetryIfExceptionType(exc) /\ ~StopNow(attempt_number)
                  THEN "backoff" ELSE "raised"
    /\ request_log' = "none"
    /\ UNCHANGED <<daily_budget_usd, min_request_interval, total_cost_usd,
                   total_tokens, last_request_time, now, attempt_number, c_caller,
                   c_result>>
    /\ UNCHANGED <<http_requests, invocation_sleeps, returned_cost,
                   returned_formula, returned_tokens>>
    /\ UNCHANGED <<stageVars, voiceVars, genVars, g_calls, g_costs, g_validated>>

\* tenacity sleeps and runs the body again
Backoff ==
    /\ cpc = "backoff"
    /\ now' = now + WaitExponential(attempt_number)
    /\ attempt_number' = attempt_number + 1
    /\ cpc' = "attempt"
    /\ c_exc' = "none"
    /\ request_log' = "none"
    /\ UNCHANGED <<daily_budget_usd, min_request_interval, total_cost_usd,
                   total_tokens, last_request_time, c_caller, c_result>>
    /\ UNCHANGED <<http_requests, invocation_sleeps, returned_cost,
                   returned_formula, returned_tokens>>
    /\ UNCHANGED <<stageVars, voiceVars, genVars, g_calls, g_costs, g_validated>>

\* the direct caller takes the result or the exception
DirectDone ==
    /\ c_caller = "direct"
    /\ cpc \in {"returned", "raised"}
    /\ EndCompletion
    /\ UNCHANGED <<stageVars, voiceVars, genVars, g_calls, g_costs, g_validated>>

\* reset_usage_stats
ResetUsageStats ==
    /\ gpc = "idle"
    /\ cpc = "idle"
    /\ total_cost_usd' = 0
    /\ total_tokens' = 0
    /\ returned_cost' = 0
    /\ returned_formula' = 0
    /\ returned_tokens' = 0
    /\ request_log' = "none"
    /\ UNCHANGED <<daily_budget_usd, min_request_interval, last_request_time, now,
                   cpc, attempt_number, c_caller, c_result, c_exc>>
    /\ UNCHANGED <<http_requests, invocation_sleeps>>
    /\ UNCHANGED <<stageVars, voiceVars, genVars, g_calls, g_costs, g_validated>>

\* a second passes between calls or while a request is in flight
Tick ==
    /\ cpc \in {"idle", "request"}
    /\ now < StartTime + MaxElapsed
    /\ now' = now + 1
    /\ request_log' = "none"
    /\ UNCHANGED <<daily_budget_usd, min_request_interval, total_cost_usd,
                   total_tokens, last_request_time, cpc, attempt_number, c_caller,
                   c_result, c_exc>>
    /\ UNCHANGED <<http_requests, invocation_sleeps, returned_cost,
                   returned_formula, returned_tokens>>
    /\ UNCHANGED <<stageVars, voiceVars, genVars, g_calls, g_costs, g_validated>>

(***************************************************************************)
(* Several threads inside generate_completion of one client.  The client   *)
(* has no lock; `self.total_tokens += n` and `self.total_cost_usd += c`    *)
(* are each a load of the attribute, an addition and a store, and another  *)
(* thread can run between the load and the store.  The pacing of           *)
(* _rate_limit is left to the single-caller specification.                 *)
(***************************************************************************)
MaxThreadCalls == 3

Threads == {"t1", "t2"}

\* what the steps of the threads leave alone
ThreadFrame ==
    /\ UNCHANGED <<daily_budget_usd, min_request_interval, last_request_time, now,
                   cpc, attempt_number, c_caller, c_result, c_exc>>
    /\ UNCHANGED <<http_requests, invocation_sleeps, request_log, returned_formula,
                   g_calls, g_costs, g_validated>>
    /\ UNCHANGED <<voiceVars, genVars, dedupVars, sessionVars, runVars, filterVars,
                   commercialVars, scoreVars, gateVars, dbVars, rankVars, processVars,
                   configVars, windowVars>>

\* a thread calls generate_completion: the budget check raises, or the
\* request is sent
ThreadCall ==
    /\ th_calls < MaxThreadCalls
    /\ \E th \in Threads :
          /\ th_pc[th] = "idle"
          /\ th_pc' = [th_pc EXCEPT ![th] = IF BudgetExceeded THEN "idle" ELSE "request"]
    /\ th_calls' = th_calls + 1
    /\ UNCHANGED <<th_usage, th_reg, total_cost_usd, total_tokens, returned_cost,
                   returned_tokens>>
    /\ ThreadFrame

\* client.post returns and the usage is read, or the request raises
ThreadResponse ==
    /\ \E th \in Threads :
          /\ th_pc[th] = "request"
          /\ \/ \E usage \in Usages :
                   /\ th_usage' = [th_usage EXCEPT ![th] = usage]
                   /\ th_pc' = [th_pc EXCEPT ![th] = "load_tokens"]
             \/ /\ th_pc' = [th_pc EXCEPT ![th] = "idle"]
                /\ UNCHANGED th_usage
    /\ UNCHANGED <<th_reg, th_calls, total_cost_usd, total_tokens, returned_cost,
                   returned_tokens>>
    /\ ThreadFrame

\* self.total_tokens += total_tokens, the load
ThreadLoadTokens ==
    /\ \E th \in Threads :
          /\ th_pc[th] = "load_tokens"
          /\ th_reg' = [th_reg EXCEPT ![th] = total_tokens]
          /\ th_pc' = [th_pc EXCEPT ![th] = "store_tokens"]
    /\ UNCHANGED <<th_usage, th_calls, total_cost_usd, total_tokens, returned_cost,
                   returned_tokens>>
    /\ ThreadFrame

\* self.total_tokens += total_tokens, the addition and the store
ThreadStoreTokens ==
    /\ \E th \in Threads :
          /\ th_pc[th] = "store_tokens"
          /\ total_tokens' = th_reg[th] + th_usage[th].total_tokens
          /\ th_pc' = [th_pc EXCEPT ![th] = "load_cost"]
    /\ UNCHANGED <<th_usage, th_reg, th_calls, total_cost_usd, returned_cost,
                   returned_tokens>>
    /\ ThreadFrame

\* self.total_cost_usd += estimated_cost, the load
ThreadLoadCost ==
    /\ \E th \in Threads :
          /\ th_pc[th] = "load_cost"
          /\ th_reg' = [th_reg EXCEPT ![th] = total_cost_usd]
          /\ th_pc' = [th_pc EXCEPT ![th] = "store_cost"]
    /\ UNCHANGED <<th_usage, th_calls, total_cost_usd, total_tokens, returned_cost,
                   returned_tokens>>
    /\ ThreadFrame

\* self.total_cost_usd += estimated_cost, the addition and the store; the
\* dictionary is returned to the caller
ThreadStoreCost ==
    /\ \E th \in Threads :
          LET estimated_cost == EstimatedCost(th_usage[th].prompt_tokens,
                                              th_usage[th].completion_tokens)
          IN  /\ th_pc[th] = "store_cost"
              /\ total_cost_usd' = th_reg[th] + estimated_cost
              /\ returned_cost' = returned_cost + estimated_cost
              /\ returned_tokens' = returned_tokens + th_usage[th].total_tokens
              /\ th_pc' = [th_pc EXCEPT ![th] = "idle"]
    /\ UNCHANGED <<th_usage, th_reg, th_calls, total_tokens>>
    /\ ThreadFrame

(***************************************************************************)
(* The sessions of one process.  BotApplication.run_session builds a new   *)
(* BotOrchestrator for every session; its initialize() builds a new        *)
(* ReplyGenerator, whose constructor builds a new OpenRouterClient.        *)
(***************************************************************************)
MaxProcessSessions == 2

\* the cost of all LLM calls of the process so far
PeriodCost == p_spent + total_cost_usd

\* the next session of the process starts: OpenRouterClient.__init__ sets
\* last_request_time = 0, total_cost_usd = 0.0 and total_tokens = 0
StartSession ==
    /\ gpc = "idle"
    /\ cpc = "idle"
    /\ p_sessions < MaxProcessSessions
    /\ p_sessions' = p_sessions + 1
    /\ p_spent' = PeriodCost
    /\ p_over' = (PeriodCost >= daily_budget_usd)
    /\ last_request_time' = 0
    /\ total_cost_usd' = 0
    /\ total_tokens' = 0
    /\ returned_cost' = 0
    /\ returned_formula' = 0
    /\ returned_tokens' = 0
    /\ request_log' = "none"
    /\ UNCHANGED <<daily_budget_usd, min_request_interval, now, cpc, attempt_number,
                   c_caller, c_result, c_exc>>
    /\ UNCHANGED <<http_requests, invocation_sleeps, g_calls, g_costs, g_validated>>
    /\ UNCHANGED <<voiceVars, genVars, dedupVars, sessionVars, runVars, filterVars,
                   commercialVars, scoreVars, gateVars, dbVars, rankVars, threadVars,
                   configVars, windowVars>>

(***************************************************************************)
(* ReplyGenerator.generate_reply                                           *)
(***************************************************************************)
DefaultMaxAttempts == 3

\* the largest max_attempts argument tried
MaxAttemptsArg == 3

FirstAttemptZero == 1 - 1

\* range(1, max_attempts + 1) starts at 1
FirstAttempt == 1

BasePrompt == [feedback |-> FALSE]

BuildUserPromptKeepingOldFeedback(validation, previous_attempt) ==
    [feedback |-> TRUE,
     previous_attempt |-> previous_attempt,
     violations |-> (IF user_prompt.feedback THEN user_prompt.violations ELSE <<>>)
                    \o validation.violations]

\* _build_user_prompt_with_feedback: the base prompt, then the previous reply
\* and each of its violations
BuildUserPromptWithFeedback(validation, previous_attempt) ==
    [feedback |-> TRUE,
     previous_attempt |-> previous_attempt,
     violations |-> validation.violations]

AlwaysAccepted(validation) == TRUE

\* if validation['is_valid']
ReplyAccepted(validation) == validation.is_valid

LastCostOnly(sofar, response) == response.cost_usd

\* total_cost += response['cost_usd']
AddCost(sofar, response) == sofar + response.cost_usd

\* generate_reply(tweet, max_attempts) is called: prompts built, total_cost = 0
GenerateReply ==
    /\ gpc = "idle"
    /\ cpc = "idle"
    /\ now < StartTime + MaxElapsed
    /\ \E m \in 0..MaxAttemptsArg, platform \in {"twitter", "reddit"} :
        /\ max_attempts' = m
        /\ g_platform' = platform
    /\ gpc' = "loop"
    /\ attempt' = FirstAttempt
    /\ total_cost' = 0
    /\ user_prompt' = BasePrompt
    /\ g_result' = NoResult
    /\ g_exc' = "none"
    /\ g_calls' = 0
    /\ g_costs' = 0
    /\ g_validated' = <<>>
    /\ request_log' = "none"
    /\ UNCHANGED <<stageVars, voiceVars, clientVars>>
    /\ UNCHANGED <<http_requests, invocation_sleeps, returned_cost,
                   returned_formula, returned_tokens>>

\* the head of "for attempt in range(1, max_attempts + 1)": the next LLM call,
\* or the ValueError after the loop
GenLoop ==
    /\ gpc = "loop"
    /\ IF attempt <= max_attempts
       THEN /\ BeginCompletion("generator")
            /\ gpc' = "calling"
            /\ g_calls' = g_calls + 1
            /\ UNCHANGED <<g_exc>>
       ELSE /\ gpc' = "raised"
            /\ g_exc' = "no_valid_reply"
            /\ request_log' = "none"
            /\ UNCHANGED <<clientVars, http_requests, invocation_sleeps,
                           returned_cost, returned_formula, returned_tokens, g_calls>>
    /\ UNCHANGED <<stageVars, voiceVars, g_platform, max_attempts, attempt, total_cost,
                   user_prompt, g_result, g_costs, g_validated>>

\* generate_completion returned: strip, add the cost, validate, return or retry
GenOnResponse ==
    /\ gpc = "calling"
    /\ c_caller = "generator"
    /\ cpc = "returned"
    /\ LET reply_text == Strip(c_result.content)
           validation == Validate(reply_text, g_platform, strict_mode, hash_seed)
       IN /\ total_cost' = AddCost(total_cost, c_result)
          /\ g_validated' = Append(g_validated, validation.is_valid)
          /\ IF ReplyAccepted(validation)
             THEN /\ g_result' = [reply_text |-> reply_text,
                                  validation |-> validation,
                                  attempt_number |-> attempt,
                                  llm_cost_usd |-> total_cost',
                                  generated_at |-> now]
                  /\ gpc' = "returned"
                  /\ UNCHANGED <<attempt, user_prompt>>
             ELSE /\ user_prompt' = IF attempt < max_attempts
                                    THEN BuildUserPromptWithFeedback(validation, reply_text)
                                    ELSE user_prompt
                  /\ attempt' = attempt + 1
                  /\ gpc' = "loop"
                  /\ UNCHANGED <<g_result>>
    /\ EndCompletion
    /\ UNCHANGED <<stageVars, voiceVars, g_platform, max_attempts, g_exc, g_calls, g_costs>>

\* generate_completion raised: the exception leaves generate_reply
GenOnError ==
    /\ gpc = "calling"
    /\ c_caller = "generator"
    /\ cpc = "raised"
    /\ gpc' = "raised"
    /\ g_exc' = c_exc
    /\ EndCompletion
    /\ UNCHANGED <<stageVars, voiceVars, g_platform, max_attempts, attempt, total_cost,
                   user_prompt, g_result>>
    /\ UNCHANGED <<g_calls, g_costs, g_validated>>

\* the caller of generate_reply takes the reply or the exception
GenDone ==
    /\ gpc \in {"returned", "raised"}
    /\ gpc' = "idle"
    /\ g_platform' = "twitter"
    /\ max_attempts' = DefaultMaxAttempts
    /\ attempt' = 0
    /\ total_cost' = 0
    /\ user_prompt' = BasePrompt
    /\ g_result' = NoResult
    /\ g_exc' = "none"
    /\ g_calls' = 0
    /\ g_costs' = 0
    /\ g_validated' = <<>>
    /\ request_log' = "none"
    /\ UNCHANGED <<stageVars, voiceVars, clientVars>>
    /\ UNCHANGED <<http_requests, invocation_sleeps, returned_cost,
                   returned_formula, returned_tokens>>

(***************************************************************************)
(* DeduplicationManager (src/src/filtering/deduplication.py).  Time is     *)
(* counted in hours here.  The replied_tweets table is a set of rows whose *)
(* primary key is tweet_id.                                                *)
(***************************************************************************)
HoursPerDay == 24
HistoryDays == 7
SameAuthorCooldownHours == 48

\* engagement_limits['max_replies_per_hour'], ['max_replies_per_day'] and
\* ['max_replies_per_session'] of the configuration under which the model runs
MaxRepliesPerHour == 2
MaxRepliesPerDay == 3
MaxRepliesPerSession == 2

\* the posts that reach the deduplication stage; "" is a missing id or username
SocialPosts == {[id |-> "p1", author |-> "alice"],
                [id |-> "p2", author |-> "alice"],
                [id |-> "p3", author |-> "bob"],
                [id |-> "p4", author |-> ""],
                [id |-> "", author |-> "bob"]}

TweetIds == {"p1", "p2", "p3", "p4"}

Usernames == {"alice", "bob", "carol"}

NoReason == <<>>

\* the instants at which the model looks at the clock: each rolling window's
\* edge and the hour after it
Instants == UNION {{w, w + 1} : w \in {0, 1, HoursPerDay, SameAuthorCooldownHours,
                                        HistoryDays * HoursPerDay}}

HasRepliedStrictlyInside(tweet_id, table, t) ==
    \E r \in table :
        /\ r.tweet_id = tweet_id
        /\ r.replied_at > t - HistoryDays * HoursPerDay

\* _has_replied_to_tweet
HasRepliedToTweet(tweet_id, table, t) ==
    \E r \in table :
        /\ r.tweet_id = tweet_id
        /\ r.replied_at >= t - HistoryDays * HoursPerDay

\* _is_author_on_cooldown
IsAuthorOnCooldown(author_username, table, t) ==
    \E r \in table :
        /\ r.author_username = author_username
        /\ r.replied_at >= t - SameAuthorCooldownHours

\* func.count(RepliedTweet.tweet_id) of the rows whose replied_at >= cutoff
CountSince(table, cutoff) == Cardinality({r \in table : r.replied_at >= cutoff})

CheckRateLimitsOneEarly(table, t) ==
    IF CountSince(table, t - 1) >= MaxRepliesPerHour - 1
    THEN [eligible |-> FALSE,
          reason |-> <<"Hourly limit reached", CountSince(table, t - 1),
                       MaxRepliesPerHour>>]
    ELSE IF CountSince(table, t - HoursPerDay) >= MaxRepliesPerDay
    THEN [eligible |-> FALSE,
          reason |-> <<"Daily limit reached", CountSince(table, t - HoursPerDay),
                       MaxRepliesPerDay>>]
    ELSE [eligible |-> TRUE, reason |-> NoReason]

\* _check_rate_limits
CheckRateLimits(table, t) ==
    IF CountSince(table, t - 1) >= MaxRepliesPerHour
    THEN [eligible |-> FALSE,
          reason |-> <<"Hourly limit reached", CountSince(table, t - 1),
                       MaxRepliesPerHour>>]
    ELSE IF CountSince(table, t - HoursPerDay) >= MaxRepliesPerDay
    THEN [eligible |-> FALSE,
          reason |-> <<"Daily limit reached", CountSince(table, t - HoursPerDay),
                       MaxRepliesPerDay>>]
    ELSE [eligible |-> TRUE, reason |-> NoReason]

CheckTweetEligibilityCooldownFirst(tweet_id, author_username, table, t) ==
    IF IsAuthorOnCooldown(author_username, table, t)
    THEN [eligible |-> FALSE, reason |-> <<"Author on cooldown", author_username>>]
    ELSE IF HasRepliedToTweet(tweet_id, table, t)
    THEN [eligible |-> FALSE, reason |-> <<"Already replied to tweet", tweet_id>>]
    ELSE CheckRateLimits(table, t)

\* check_tweet_eligibility
CheckTweetEligibility(tweet_id, author_username, table, t) ==
    IF HasRepliedToTweet(tweet_id, table, t)
    THEN [eligible |-> FALSE, reason |-> <<"Already replied to tweet", tweet_id>>]
    ELSE IF IsAuthorOnCooldown(author_username, table, t)
    THEN [eligible |-> FALSE, reason |-> <<"Author on cooldown", author_username>>]
    ELSE CheckRateLimits(table, t)

\* the queries _check_rate_limits sends to the database: the daily count is
\* asked for only when the hourly count is below its cap
RateLimitQueries(table, t) ==
    IF CountSince(table, t - 1) >= MaxRepliesPerHour
    THEN <<"hour_count">>
    ELSE <<"hour_count", "day_count">>

\* the queries check_tweet_eligibility sends to the database, in order: each
\* return leaves the function before the checks that follow it
EligibilityQueries(tweet_id, author_username, table, t) ==
    IF HasRepliedToTweet(tweet_id, table, t)
    THEN <<"has_replied_to_tweet">>
    ELSE IF IsAuthorOnCooldown(author_username, table, t)
    THEN <<"has_replied_to_tweet", "is_author_on_cooldown">>
    ELSE <<"has_replied_to_tweet", "is_author_on_cooldown">>
         \o RateLimitQueries(table, t)

\* the row record_reply builds: author.get('username', 'unknown')
RepliedTweet(tweet, t) ==
    [tweet_id |-> tweet.id,
     author_username |-> IF tweet.author = "" THEN "unknown" ELSE tweet.author,
     replied_at |-> t]

\* filter_tweets_batch: the loop over the tweets, one eligibility check each
RECURSIVE FilterTweetsBatch(_, _, _)
FilterTweetsBatch(tweets, table, t) ==
    IF Len(tweets) = 0
    THEN [eligible |-> <<>>, rejected |-> <<>>]
    ELSE LET tweet == Head(tweets)
             rest == FilterTweetsBatch(Tail(tweets), table, t)
             decision == CheckTweetEligibility(tweet.id, tweet.author, table, t)
         IN  IF tweet.id = "" \/ tweet.author = ""
             THEN [eligible |-> rest.eligible,
                   rejected |-> <<[tweet |-> tweet,
                                   rejection_reason |-> <<"Missing tweet ID or author">>]>>
                                \o rest.rejected]
             ELSE IF decision.eligible
             THEN [eligible |-> <<tweet>> \o rest.eligible, rejected |-> rest.rejected]
             ELSE [eligible |-> rest.eligible,
                   rejected |-> <<[tweet |-> tweet,
                                   rejection_reason |-> decision.reason]>>
                                \o rest.rejected]

NoCall == [op |-> "none"]

\* check_tweet_eligibility(tweet_id, author_username) is called: queries only
CheckEligibility ==
    /\ \E tweet_id \in TweetIds, author_username \in Usernames :
          /\ d_call' = [op |-> "check", tweet_id |-> tweet_id,
                        author_username |-> author_username, at |-> utcnow]
          /\ d_result' = CheckTweetEligibility(tweet_id, author_username,
                                               replied_tweets, utcnow)
          /\ d_queries' = EligibilityQueries(tweet_id, author_username,
                                             replied_tweets, utcnow)
          /\ d_prev' = IF /\ d_call.op = "check"
                          /\ d_call.tweet_id = tweet_id
                          /\ d_call.author_username = author_username
                          /\ d_call.at = utcnow
                       THEN d_result ELSE NoResult
    /\ d_exc' = "none"
    /\ UNCHANGED <<utcnow, replied_tweets>>
    /\ UNCHANGED <<sessionVars, llmVars, runVars, pureVars>>

\* record_reply(tweet, reply_text): one row is inserted and committed; a
\* second row with the same primary key is refused by the database
RecordReply ==
    /\ \E tweet \in {p \in SocialPosts : p.id # "" /\ p.author # ""} :
          /\ d_call' = [op |-> "record", tweet_id |-> tweet.id,
                        author_username |-> tweet.author, at |-> utcnow]
          /\ IF \E r \in replied_tweets : r.tweet_id = tweet.id
             THEN /\ d_exc' = "IntegrityError"
                  /\ UNCHANGED replied_tweets
             ELSE /\ d_exc' = "none"
                  /\ replied_tweets' = replied_tweets \cup {RepliedTweet(tweet, utcnow)}
    /\ d_result' = NoResult
    /\ d_queries' = <<>>
    /\ d_prev' = NoResult
    /\ UNCHANGED <<utcnow>>
    /\ UNCHANGED <<sessionVars, llmVars, runVars, pureVars>>

CleanupKeepsOneDay ==
    /\ replied_tweets' = {r \in replied_tweets : ~(r.replied_at < utcnow - HoursPerDay)}
    /\ d_call' = [op |-> "cleanup", at |-> utcnow]
    /\ d_result' = [deleted |-> Cardinality(replied_tweets \ replied_tweets')]
    /\ d_exc' = "none"
    /\ d_queries' = <<>>
    /\ d_prev' = NoResult
    /\ UNCHANGED <<utcnow>>
    /\ UNCHANGED <<sessionVars, llmVars, runVars, pureVars>>

\* cleanup_old_records(): days defaults to history_days; the number of
\* deleted rows is returned
CleanupOldRecords ==
    /\ replied_tweets' = {r \in replied_tweets :
                             ~(r.replied_at < utcnow - HistoryDays * HoursPerDay)}
    /\ d_call' = [op |-> "cleanup", at |-> utcnow]
    /\ d_result' = [deleted |-> Cardinality(replied_tweets \ replied_tweets')]
    /\ d_exc' = "none"
    /\ d_queries' = <<>>
    /\ d_prev' = NoResult
    /\ UNCHANGED <<utcnow>>
    /\ UNCHANGED <<sessionVars, llmVars, runVars, pureVars>>

\* datetime.utcnow() moves on
ClockAdvance ==
    /\ \E t \in Instants : t > utcnow /\ utcnow' = t
    /\ UNCHANGED <<replied_tweets, d_call, d_result, d_exc, d_queries, d_prev>>
    /\ UNCHANGED <<sessionVars, llmVars, runVars, pureVars>>

(***************************************************************************)
(* BotOrchestrator.run_session, steps 5 to 7                               *)
(* (src/src/core/orchestrator.py).  Steps 1 to 4 hand over the list of     *)
(* posts that survived scraping, filtering and scoring.  Every session is  *)
(* run by an orchestrator of its own (src/src/main.py), whose session_id   *)
(* is its construction time; the model numbers the sessions instead.       *)
(***************************************************************************)
MaxSessions == 2
MaxBatch == 2

\* the lists step 1 can hand over: _scrape_content keeps one post per id
Batches == {b \in UNION {[1..n -> SocialPosts] : n \in 1..MaxBatch} :
               \A i, j \in 1..Len(b) : b[i].id = b[j].id => i = j}

\* posts[:] in place of posts[:session_limit]
PostsToProcessAll(ps) == ps

\* posts[:session_limit]
PostsToProcess(ps) == SubSeq(ps, 1, Min(max_replies_per_session, Len(ps)))

\* the posts of the list whose reply generation did not raise, in order
RECURSIVE PostsWithReplies(_, _, _)
PostsWithReplies(ps, ok, i) ==
    IF i > Len(ps) THEN <<>>
    ELSE (IF i \in ok THEN <<ps[i]>> ELSE <<>>) \o PostsWithReplies(ps, ok, i + 1)

\* UniqueConstraint('tweet_id', 'session_id') of ReplyQueue
UniqueTweetPerSession(queue, tweet_id, session_id) ==
    ~\E q \in queue : q.tweet_id = tweet_id /\ q.session_id = session_id

\* the loop of _send_for_approval: one ReplyQueue row per post is added and
\* committed; a row the constraint refuses is rolled back and skipped
RECURSIVE QueueAll(_, _, _)
QueueAll(queue, ps, session_id) ==
    IF Len(ps) = 0 THEN queue
    ELSE IF UniqueTweetPerSession(queue, Head(ps).id, session_id)
    THEN QueueAll(queue \cup {[id |-> Cardinality(queue) + 1,
                               tweet_id |-> Head(ps).id,
                               session_id |-> session_id]},
                  Tail(ps), session_id)
    ELSE QueueAll(queue, Tail(ps), session_id)

\* a new orchestrator runs steps 1 to 4 of run_session
ScoreAndRankPosts ==
    /\ spc = "idle"
    /\ session_no < MaxSessions
    /\ session_no' = session_no + 1
    /\ posts' \in Batches
    /\ spc' = "scored"
    /\ UNCHANGED <<reply_queue>>
    /\ UNCHANGED <<dedupVars, llmVars, runVars, pureVars>>

\* step 5: _apply_deduplication; run_session returns when nothing is left
ApplyDeduplication ==
    /\ spc = "scored"
    /\ posts' = FilterTweetsBatch(posts, replied_tweets, utcnow).eligible
    /\ spc' = IF Len(posts') = 0 THEN "idle" ELSE "deduplicated"
    /\ UNCHANGED <<session_no, reply_queue>>
    /\ UNCHANGED <<dedupVars, llmVars, runVars, pureVars>>

\* step 6: _generate_replies; a post whose generation raises is skipped
GenerateReplies ==
    /\ spc = "deduplicated"
    /\ \E ok \in SUBSET (1..Len(PostsToProcess(posts))) :
          posts' = PostsWithReplies(PostsToProcess(posts), ok, 1)
    /\ spc' = "drafted"
    /\ UNCHANGED <<session_no, reply_queue>>
    /\ UNCHANGED <<dedupVars, llmVars, runVars, pureVars>>

\* step 7: _send_for_approval
SendForApproval ==
    /\ spc = "drafted"
    /\ reply_queue' = QueueAll(reply_queue, posts, session_no)
    /\ posts' = <<>>
    /\ spc' = "idle"
    /\ UNCHANGED <<session_no>>
    /\ UNCHANGED <<dedupVars, llmVars, runVars, pureVars>>

(***************************************************************************)
(* BaseFilter (src/src/filtering/base_filter.py).  A post is described by  *)
(* what the filter reads of it: its representation (a dictionary, or the   *)
(* SocialPost object the scrapers build), its platform, its counts, the    *)
(* age of created_at in seconds at the time of the call ("missing" when    *)
(* there is none, "invalid" for a string that is not an ISO timestamp),    *)
(* its language ("missing" when the key is absent) and, of its text, the   *)
(* length and whether it holds a banned keyword or matches a banned        *)
(* pattern.                                                                *)
(***************************************************************************)
SecondsPerHour == 3600
ClockSkewSeconds == 300

\* self.filters, the configuration under which the model runs
Filters ==
    [engagement |-> [min_followers |-> 2, max_followers |-> 3, min_likes |-> 1,
                     min_replies |-> 1, max_replies |-> 2],
     recency |-> [min_age_hours |-> 1, max_age_hours |-> 2],
     language |-> [required |-> "en"],
     content_quality |-> [min_length |-> 2, max_length |-> 3,
                          reddit_max_length |-> 5,
                          banned_keywords |-> <<"nft">>,
                          banned_patterns |-> <<"https?://">>]]

FollowerCounts == {Filters.engagement.min_followers - 1, Filters.engagement.min_followers,
                   Filters.engagement.max_followers, Filters.engagement.max_followers + 1}

LikeCounts == {Filters.engagement.min_likes - 1, Filters.engagement.min_likes}

ReplyCounts == {Filters.engagement.min_replies - 1, Filters.engagement.min_replies,
                Filters.engagement.max_replies, Filters.engagement.max_replies + 1}

Ages == {0 - ClockSkewSeconds - 1, 0 - ClockSkewSeconds, 0,
         Filters.recency.min_age_hours * SecondsPerHour - 1,
         Filters.recency.min_age_hours * SecondsPerHour,
         Filters.recency.max_age_hours * SecondsPerHour,
         Filters.recency.max_age_hours * SecondsPerHour + 1}

CreatedAts == {[kind |-> "datetime", age |-> a] : a \in Ages}
              \cup {[kind |-> "missing", age |-> 0], [kind |-> "invalid", age |-> 0]}

PostTexts ==
    {[length |-> n, keyword |-> FALSE, pattern |-> FALSE] :
        n \in {Filters.content_quality.min_length - 1, Filters.content_quality.min_length,
               Filters.content_quality.max_length, Filters.content_quality.max_length + 1,
               Filters.content_quality.reddit_max_length,
               Filters.content_quality.reddit_max_length + 1}}
    \cup {[length |-> Filters.content_quality.max_length, keyword |-> k, pattern |-> p] :
             k, p \in BOOLEAN}

\* the posts handed to the filter; a SocialPost holds a datetime and a language
Tweets ==
    {t \in [repr : {"dict", "SocialPost"},
            platform : {"Platform.TWITTER", "Platform.REDDIT"},
            followers_count : FollowerCounts,
            likes : LikeCounts,
            replies : ReplyCounts,
            created_at : CreatedAts,
            language : {"en", "fr", "missing"},
            text : PostTexts] :
        t.repr = "SocialPost" =>
            (t.created_at.kind = "datetime" /\ t.language # "missing")}

\* what a check hands back, or the exception that leaves it
Passes == [raised |-> "none", passes |-> TRUE, reason |-> NoReason]

Rejects(reason) == [raised |-> "none", passes |-> FALSE, reason |-> reason]

Raises(exc) == [raised |-> exc, passes |-> FALSE, reason |-> NoReason]

\* _check_engagement; metrics.get(...) is a call on a dictionary, which the
\* SocialMetrics dataclass of a SocialPost does not have
CheckEngagement(tweet) ==
    LET is_reddit == tweet.platform = "Platform.REDDIT"
        e == Filters.engagement
    IN  IF ~is_reddit /\ tweet.followers_count < e.min_followers
        THEN Rejects(<<"Too few followers", tweet.followers_count, e.min_followers>>)
        ELSE IF ~is_reddit /\ tweet.followers_count > e.max_followers
        THEN Rejects(<<"Too many followers", tweet.followers_count, e.max_followers>>)
        ELSE IF tweet.repr = "SocialPost"
        THEN Raises("AttributeError")
        ELSE IF tweet.likes < e.min_likes
        THEN Rejects(<<"Too few likes", tweet.likes, e.min_likes>>)
        ELSE IF tweet.replies < e.min_replies
        THEN Rejects(<<"Too few replies", tweet.replies, e.min_replies>>)
        ELSE IF tweet.replies > e.max_replies
        THEN Rejects(<<"Too many replies", tweet.replies, e.max_replies>>)
        ELSE Passes

\* _check_recency; the handler of a parse failure names created_at_str, a
\* variable the function never binds
CheckRecency(tweet) ==
    LET r == Filters.recency
        age_seconds == tweet.created_at.age
    IN  IF tweet.created_at.kind = "missing"
        THEN Rejects(<<"Missing created_at timestamp">>)
        ELSE IF tweet.created_at.kind = "invalid"
        THEN Raises("NameError")
        ELSE IF age_seconds < 0 - ClockSkewSeconds
        THEN Rejects(<<"Future timestamp">>)
        ELSE IF Max(0, age_seconds) < r.min_age_hours * SecondsPerHour
        THEN Rejects(<<"Too recent", Max(0, age_seconds), r.min_age_hours>>)
        ELSE IF Max(0, age_seconds) > r.max_age_hours * SecondsPerHour
        THEN Rejects(<<"Too old", Max(0, age_seconds), r.max_age_hours>>)
        ELSE Passes

\* _check_language
CheckLanguage(tweet) ==
    LET language == IF tweet.language = "missing" THEN "unknown" ELSE tweet.language
    IN  IF language # Filters.language.required
        THEN Rejects(<<"Wrong language", language, Filters.language.required>>)
        ELSE Passes

\* _check_content_quality
CheckContentQuality(tweet) ==
    LET q == Filters.content_quality
        max_len == IF tweet.platform = "Platform.REDDIT"
                   THEN q.reddit_max_length ELSE q.max_length
    IN  IF tweet.text.length < q.min_length
        THEN Rejects(<<"Too short", tweet.text.length, q.min_length>>)
        ELSE IF tweet.text.length > max_len
        THEN Rejects(<<"Too long", tweet.text.length, max_len>>)
        ELSE IF tweet.text.keyword
        THEN Rejects(<<"Banned keyword", q.banned_keywords[1]>>)
        ELSE IF tweet.text.pattern
        THEN Rejects(<<"Banned pattern", q.banned_patterns[1]>>)
        ELSE Passes

\* filter_tweet: the first check that does not pass ends the call
FilterTweet(tweet) ==
    IF ~CheckEngagement(tweet).passes THEN CheckEngagement(tweet)
    ELSE IF ~CheckRecency(tweet).passes THEN CheckRecency(tweet)
    ELSE IF ~CheckLanguage(tweet).passes THEN CheckLanguage(tweet)
    ELSE CheckContentQuality(tweet)

\* the loop of filter_tweets_batch over the tweets not yet seen; an exception
\* of filter_tweet leaves the loop and the call
RECURSIVE BaseFilterLoop(_, _, _)
BaseFilterLoop(tweets, passed, rejected) ==
    IF Len(tweets) = 0
    THEN [raised |-> "none", passed |-> passed, rejected |-> rejected]
    ELSE LET tweet == Head(tweets)
             outcome == FilterTweet(tweet)
         IN  IF outcome.raised # "none"
             THEN [raised |-> outcome.raised, passed |-> <<>>, rejected |-> <<>>]
             ELSE IF outcome.passes
             THEN BaseFilterLoop(Tail(tweets), Append(passed, tweet), rejected)
             ELSE BaseFilterLoop(Tail(tweets), passed,
                                 Append(rejected, [tweet |-> tweet,
                                                   rejection_reason |-> outcome.reason]))

BaseFilterBatchPassedFirst(tweets) ==
    LET out == BaseFilterLoop(tweets, <<>>, <<>>)
    IN  IF Len(out.passed) > 0 /\ Len(out.rejected) > 0
        THEN [out EXCEPT !.passed = Tail(out.passed)]
        ELSE out

\* filter_tweets_batch
BaseFilterTweetsBatch(tweets) == BaseFilterLoop(tweets, <<>>, <<>>)

\* filter_tweet(tweet) is called
FilterTweetCall ==
    /\ f_result = NoResult
    /\ f_result' = FilterTweet(f_tweet)
    /\ UNCHANGED <<f_tweet, b_tweets, b_result>>
    /\ UNCHANGED <<dedupVars, sessionVars, llmVars, runVars, gateVars, dbVars, rankVars, threadVars, processVars, configVars, windowVars, commercialVars, scoreVars>>

\* filter_tweets_batch(tweets) is called
FilterTweetsBatchCall ==
    /\ b_result = NoResult
    /\ b_result' = BaseFilterTweetsBatch(b_tweets)
    /\ UNCHANGED <<f_tweet, f_result, b_tweets>>
    /\ UNCHANGED <<dedupVars, sessionVars, llmVars, runVars, gateVars, dbVars, rankVars, threadVars, processVars, configVars, windowVars, commercialVars, scoreVars>>

(***************************************************************************)
(* CommercialFilter (src/src/filtering/commercial_filter.py).  A post text *)
(* is a sequence of phrases, as for the validator; the multipliers are     *)
(* counted in tenths and the commercial score in hundredths of a point.    *)
(***************************************************************************)
MaxCommercialTextLen == 2

PriorityMultipliersHighBelowMedium ==
    [critical |-> 30, high |-> 12, medium_high |-> 15, medium |-> 20, baseline |-> 10]

\* PRIORITY_MULTIPLIERS, in tenths
PriorityMultipliers ==
    [critical |-> 30, high |-> 20, medium_high |-> 15, medium |-> 12, baseline |-> 10]

\* the tiers, most valuable first
PriorityOrder == <<"critical", "high", "medium_high", "medium", "baseline">>

\* self.commercial, the configuration under which the model runs
Commercial ==
    [priority_keywords |-> [critical |-> <<"imposter syndrome", "Self-Doubt">>,
                            high |-> <<"brand clarity">>,
                            medium_high |-> <<"growth">>,
                            medium |-> <<"struggling">>],
     profile_indicators |-> [entrepreneur_keywords |-> <<"founder">>,
                             target_stage |-> <<"pre-launch">>]]

CommercialPhrases == {"Imposter Syndrome hits", "my self-doubt", "BRAND CLARITY",
                      "slow growth", "Struggling pre-launch", "hello"}

AuthorTexts == {"jane doe", "Jane Founder"}

CommercialPosts ==
    [text : UNION {[1..n -> CommercialPhrases] : n \in 0..MaxCommercialTextLen},
     author : AuthorTexts]

\* str.lower() on the strings of the model
LowerCase(s) ==
    CASE s = "Imposter Syndrome hits" -> "imposter syndrome hits"
      [] s = "BRAND CLARITY" -> "brand clarity"
      [] s = "Struggling pre-launch" -> "struggling pre-launch"
      [] s = "Jane Founder" -> "jane founder"
      [] s = "Self-Doubt" -> "self-doubt"
      [] OTHER -> s

\* needle in haystack, for the strings of the model (as written, case and all)
InString(needle, haystack) ==
    CASE haystack = "imposter syndrome hits" -> needle = "imposter syndrome"
      [] haystack = "my self-doubt" -> needle = "self-doubt"
      [] haystack = "brand clarity" -> needle = "brand clarity"
      [] haystack = "slow growth" -> needle = "growth"
      [] haystack = "struggling pre-launch" -> needle \in {"struggling", "pre-launch"}
      [] haystack = "jane founder" -> needle = "founder"
      [] OTHER -> FALSE

\* keyword.lower() in text, text being the lowered post text
InText(keyword, text) ==
    \E i \in 1..Len(text) : InString(LowerCase(keyword), text[i])

\* [k for k in keywords if k.lower() in text]
Matched(keywords, text) == SelectSeq(keywords, LAMBDA k : InText(k, text))

CheckPriorityKeywordsLeastFirst(text) ==
    LET kw == Commercial.priority_keywords
    IN  IF Len(Matched(kw.medium, text)) > 0
        THEN [priority |-> "medium", matched |-> Matched(kw.medium, text)]
        ELSE IF Len(Matched(kw.medium_high, text)) > 0
        THEN [priority |-> "medium_high", matched |-> Matched(kw.medium_high, text)]
        ELSE IF Len(Matched(kw.high, text)) > 0
        THEN [priority |-> "high", matched |-> Matched(kw.high, text)]
        ELSE IF Len(Matched(kw.critical, text)) > 0
        THEN [priority |-> "critical", matched |-> Matched(kw.critical, text)]
        ELSE [priority |-> "baseline", matched |-> <<>>]

\* _check_priority_keywords
CheckPriorityKeywords(text) ==
    LET kw == Commercial.priority_keywords
    IN  IF Len(Matched(kw.critical, text)) > 0
        THEN [priority |-> "critical", matched |-> Matched(kw.critical, text)]
        ELSE IF Len(Matched(kw.high, text)) > 0
        THEN [priority |-> "high", matched |-> Matched(kw.high, text)]
        ELSE IF Len(Matched(kw.medium_high, text)) > 0
        THEN [priority |-> "medium_high", matched |-> Matched(kw.medium_high, text)]
        ELSE IF Len(Matched(kw.medium, text)) > 0
        THEN [priority |-> "medium", matched |-> Matched(kw.medium, text)]
        ELSE [priority |-> "baseline", matched |-> <<>>]

\* _check_profile_indicators: the author's fields and the text, lowered
CheckProfileIndicators(post) ==
    LET search_text == <<LowerCase(post.author)>>
                       \o [i \in 1..Len(post.text) |-> LowerCase(post.text[i])]
        text_lower == [i \in 1..Len(post.text) |-> LowerCase(post.text[i])]
        ind == Commercial.profile_indicators
    IN  Tagged("entrepreneur", Matched(ind.entrepreneur_keywords, search_text))
        \o Tagged("stage", Matched(ind.target_stage, text_lower))

\* _calculate_commercial_score, in hundredths
CalculateCommercialScore(multiplier, keyword_count, indicator_count) ==
    Min(multiplier * 200 + Min(keyword_count * 500, 2000)
          + Min(indicator_count * 300, 1500),
        10000)

\* analyze_post
AnalyzePost(post) ==
    LET text == [i \in 1..Len(post.text) |-> LowerCase(post.text[i])]
        found == CheckPriorityKeywords(text)
        profile_indicators == CheckProfileIndicators(post)
        multiplier == PriorityMultipliers[found.priority]
    IN  [priority |-> found.priority,
         multiplier |-> multiplier,
         matched_keywords |-> found.matched,
         matched_profile_indicators |-> profile_indicators,
         commercial_score |-> CalculateCommercialScore(multiplier, Len(found.matched),
                                                       Len(profile_indicators))]

\* analyze_post(post) is called; the analysis is attached to the post
AnalyzePostCall ==
    /\ a_result = NoResult
    /\ a_result' = AnalyzePost(a_post)
    /\ UNCHANGED <<a_post>>
    /\ UNCHANGED <<dedupVars, sessionVars, llmVars, runVars, gateVars, dbVars, rankVars, threadVars, processVars, configVars, windowVars, filterVars, scoreVars>>

(***************************************************************************)
(* PostScorer (src/src/scoring/post_scorer.py).  Scores are counted in     *)
(* hundredths of a point, the precision score_post rounds its result to;   *)
(* a quotient is cut to the hundredth where the code keeps a float.  Time  *)
(* is in seconds.  The reasoning string, a rendering of the same numbers,  *)
(* is left out.                                                            *)
(***************************************************************************)
MaxScoreElapsed == 1

\* the clock reading the model starts from: 06:00 on the second day
ScoreEpoch == 30 * SecondsPerHour

\* self.scoring: the weights of the module docstring, in percent
Scoring ==
    [weights |-> [engagement_velocity |-> 40, user_authority |-> 30,
                  timing_score |-> 20, discussion_opportunity |-> 10],
     thresholds |-> [minimum_score |-> 5000]]

\* bot_config.schedule.active_hours, "07:00" to "22:00"
ActiveHours == [start |-> 7, end |-> 22]

NoSignals == [none |-> TRUE]

\* analysed posts of every tier, two of them with more signals than the
\* keyword of their tier
SignalPosts ==
    {[text |-> <<t>>, author |-> "jane doe"] :
        t \in {"Imposter Syndrome hits", "BRAND CLARITY", "slow growth",
               "Struggling pre-launch", "hello"}}
    \cup {[text |-> <<"my self-doubt", "Imposter Syndrome hits">>,
            author |-> "Jane Founder"],
          [text |-> <<"BRAND CLARITY", "slow growth">>, author |-> "Jane Founder"]}

\* post.commercial_signals: None, or what analyze_post attached
CommercialSignals == {NoSignals} \cup {AnalyzePost(p) : p \in SignalPosts}

\* post.created_at: None, or an instant counted in seconds (ages 0, 2 h,
\* 6 h, 6 h and a second, 12 h and a second, 24 h and a second at ScoreEpoch)
PostCreatedAts ==
    {[kind |-> "missing", at |-> 0]}
    \cup {[kind |-> "datetime", at |-> ScoreEpoch - age] :
            age \in {0, 2 * SecondsPerHour, 6 * SecondsPerHour,
                     12 * SecondsPerHour + 1, HoursPerDay * SecondsPerHour + 1}}

\* the posts the scrapers build: Twitter posts carry impressions=0, Reddit
\* posts view_count or 0; counts are never negative
ScoredPosts ==
    {p \in [platform : {"twitter", "reddit"},
            likes : {0, 9, 999},
            replies : {0, 3, 21},
            impressions : {0, 1000},
            followers_count : {0, 9999999},
            is_verified : BOOLEAN,
            created_at : PostCreatedAts,
            question : BOOLEAN,
            length : {50, 100, 201, 281},
            commercial_signals : CommercialSignals,
            score : {NoResult}] :
        p.platform = "twitter" => p.impressions = 0}

\* math.log10 in hundredths; exact on the powers of ten, which is where the
\* counts of the model put it
RECURSIVE Log10(_)
Log10(n) == IF n < 10 THEN 0 ELSE 100 + Log10(n \div 10)

\* _calculate_post_age_hours, in seconds
CalculatePostAge(post, t) ==
    IF post.created_at.kind = "datetime"
    THEN Max(0, t - post.created_at.at)
    ELSE 0

\* _score_engagement_velocity
ScoreEngagementVelocity(post, t) ==
    LET likes == post.likes
        replies == post.replies
        impressions == post.impressions
        like_points == IF impressions > 0
                       THEN Min((likes * 100000) \div impressions, 4000)
                       ELSE IF likes > 0
                            THEN Min((Log10(likes + 1) * 15), 4000)
                            ELSE 0
        reply_points == IF likes > 0
                        THEN Min((replies * 10000) \div likes, 3000)
                        ELSE 0
        age == CalculatePostAge(post, t)
        freshness == IF 2 * SecondsPerHour <= age /\ age <= 6 * SecondsPerHour
                     THEN 3000
                     ELSE IF 6 * SecondsPerHour < age /\ age <= 12 * SecondsPerHour
                     THEN 2000
                     ELSE IF age < 2 * SecondsPerHour
                     THEN 1000
                     ELSE 500
    IN  Min(like_points + reply_points + freshness, 10000)

\* _score_user_authority
ScoreUserAuthority(post) ==
    LET followers == post.followers_count
        follower_points == IF post.platform = "reddit"
                           THEN 3000
                           ELSE IF followers > 0
                                THEN Min(Log10(followers + 1) * 10, 6000)
                                ELSE 0
        verified_points == IF post.is_verified THEN 2000 ELSE 0
    IN  Min(follower_points + verified_points, 10000)

\* _score_timing; a post without created_at takes the except branch
ScoreTiming(post, t) ==
    LET age == CalculatePostAge(post, t)
        window == IF post.platform = "reddit"
                  THEN IF SecondsPerHour <= 2 * age /\ age <= 12 * SecondsPerHour
                       THEN 6000
                       ELSE IF 12 * SecondsPerHour < age
                               /\ age <= HoursPerDay * SecondsPerHour
                       THEN 4000
                       ELSE 2000
                  ELSE IF 2 * SecondsPerHour <= age /\ age <= 6 * SecondsPerHour
                       THEN 6000
                       ELSE IF 6 * SecondsPerHour < age /\ age <= 12 * SecondsPerHour
                       THEN 4000
                       ELSE 2000
        hour == (post.created_at.at \div SecondsPerHour) % HoursPerDay
        alignment == IF post.created_at.kind # "datetime"
                     THEN 1500
                     ELSE IF ActiveHours.start <= hour /\ hour < ActiveHours.end
                     THEN 3000
                     ELSE 500
    IN  Min(window + alignment, 10000)

\* _score_discussion_opportunity
ScoreDiscussionOpportunity(post) ==
    LET replies == post.replies
        length == post.length
        question_points == IF post.question THEN 3000 ELSE 0
        length_points == IF post.platform = "reddit"
                         THEN IF length > 200 THEN 2500
                              ELSE IF length > 50 THEN 1500 ELSE 0
                         ELSE IF 100 <= length /\ length <= 280 THEN 2500 ELSE 0
        reply_points == IF 3 <= replies /\ replies <= 20 THEN 2500
                        ELSE IF replies < 3 THEN 1000 ELSE 500
    IN  Min(question_points + length_points + reply_points, 10000)

\* the weighted sum times the multiplier, in 1/100000 of a point
WeightedTotal(post, t) ==
    LET w == Scoring.weights
        total_score ==
            ScoreEngagementVelocity(post, t) * w.engagement_velocity
            + ScoreUserAuthority(post) * w.user_authority
            + ScoreTiming(post, t) * w.timing_score
            + ScoreDiscussionOpportunity(post) * w.discussion_opportunity
        commercial_multiplier ==
            IF post.commercial_signals # NoSignals
            THEN post.commercial_signals.multiplier
            ELSE 10
    IN  total_score * commercial_multiplier

\* round(x, 2) of a value counted in 1/100000 of a point
RoundToHundredths(x) == (x + 500) \div 1000

ScorePostUncapped(post, t) ==
    LET total_score == WeightedTotal(post, t)
    IN  [total_score |-> RoundToHundredths(total_score),
         engagement_velocity_score |-> ScoreEngagementVelocity(post, t),
         user_authority_score |-> ScoreUserAuthority(post),
         timing_score |-> ScoreTiming(post, t),
         discussion_score |-> ScoreDiscussionOpportunity(post),
         meets_threshold |->
             total_score >= Scoring.thresholds.minimum_score * 1000]

\* score_post
ScorePost(post, t) ==
    LET total_score == Min(WeightedTotal(post, t), 10000 * 1000)
    IN  [total_score |-> RoundToHundredths(total_score),
         engagement_velocity_score |-> ScoreEngagementVelocity(post, t),
         user_authority_score |-> ScoreUserAuthority(post),
         timing_score |-> ScoreTiming(post, t),
         discussion_score |-> ScoreDiscussionOpportunity(post),
         meets_threshold |->
             total_score >= Scoring.thresholds.minimum_score * 1000]

\* score_post(post) is called for the first time; the result is attached
ScorePostCall ==
    /\ s_result = NoResult
    /\ s_result' = [at |-> s_now, scoring_result |-> ScorePost(s_post, s_now)]
    /\ s_post' = [s_post EXCEPT !.score = ScorePost(s_post, s_now)]
    /\ UNCHANGED <<s_now, s_again>>
    /\ UNCHANGED <<dedupVars, sessionVars, llmVars, runVars, gateVars, dbVars, rankVars, threadVars, processVars, configVars, windowVars, filterVars, commercialVars>>

\* score_post(post) is called again on the post that carries a score
RescorePostCall ==
    /\ s_result # NoResult
    /\ s_again = NoResult
    /\ s_again' = [at |-> s_now, scoring_result |-> ScorePost(s_post, s_now)]
    /\ s_post' = [s_post EXCEPT !.score = ScorePost(s_post, s_now)]
    /\ UNCHANGED <<s_now, s_result>>
    /\ UNCHANGED <<dedupVars, sessionVars, llmVars, runVars, gateVars, dbVars, rankVars, threadVars, processVars, configVars, windowVars, filterVars, commercialVars>>

\* a second passes
ScoreClockAdvance ==
    /\ s_now < ScoreEpoch + MaxScoreElapsed
    /\ s_now' = s_now + 1
    /\ UNCHANGED <<s_post, s_result, s_again>>
    /\ UNCHANGED <<dedupVars, sessionVars, llmVars, runVars, gateVars, dbVars, rankVars, threadVars, processVars, configVars, windowVars, filterVars, commercialVars>>

(***************************************************************************)
(* BotOrchestrator.run_session (src/src/core/orchestrator.py), post by     *)
(* post.  scraped_tweets is the audit table _log_post_processing writes    *)
(* (one row per tweet_id), approval_queue the ReplyQueue table.  A post    *)
(* carries what each stage reads of it; `base` is what filter_tweet does   *)
(* with it: it returns (True, None), returns (False, reason), or raises.   *)
(***************************************************************************)
MaxRuns == 2
MaxRunBatch == 2

RunPost ==
    [id |-> "p1", author |-> "alice", base |-> [outcome |-> "pass", reason |-> <<>>],
     text |-> <<"Imposter Syndrome hits">>,
     platform |-> "twitter", likes |-> 999, replies |-> 3, impressions |-> 0,
     followers_count |-> 9999999, is_verified |-> TRUE,
     created_at |-> [kind |-> "datetime", at |-> ScoreEpoch - 2 * SecondsPerHour],
     question |-> TRUE, length |-> 100,
     commercial_signals |-> NoSignals, score |-> NoResult]

\* the posts the scrapers deliver in the model: a critical post, a medium
\* post that scores lower, a medium post below the threshold, a baseline
\* post, a critical post that scores below the first medium post, a post
\* the base filter rejects and one on which it raises
RunPosts ==
    {RunPost,
     [RunPost EXCEPT !.id = "p2", !.author = "bob",
                     !.text = <<"Struggling pre-launch">>, !.is_verified = FALSE],
     [RunPost EXCEPT !.id = "p3", !.author = "carol", !.text = <<"Struggling pre-launch">>,
                     !.likes = 0, !.followers_count = 0, !.is_verified = FALSE,
                     !.question = FALSE, !.length = 50],
     [RunPost EXCEPT !.id = "p4", !.author = "alice", !.text = <<"hello">>],
     [RunPost EXCEPT !.id = "p5", !.author = "carol", !.replies = 21,
                     !.likes = 0, !.followers_count = 0, !.is_verified = FALSE,
                     !.question = FALSE, !.length = 50],
     [RunPost EXCEPT !.id = "p3", !.author = "carol",
                     !.base = [outcome |-> "reject",
                               reason |-> <<"Too few followers", 1, 2>>]],
     [RunPost EXCEPT !.id = "p2", !.author = "bob",
                     !.base = [outcome |-> "raise", reason |-> <<>>]]}

\* what _scrape_content can return: one post per id
RunBatches == {b \in UNION {[1..n -> RunPosts] : n \in 0..MaxRunBatch} :
                  \A i, j \in 1..Len(b) : b[i].id = b[j].id => i = j}

\* str(e) of what generate_reply raises
DraftErrors == {<<"LLM error">>, <<"Daily budget exceeded">>,
                <<"Failed to generate valid reply after 3 attempts">>}

\* _log_post_processing: the row of the tweet gets the status and the
\* reason, or a row is added for it
LogPostProcessing(table, post, status, reason, session_id) ==
    IF \E row \in table : row.tweet_id = post.id
    THEN {IF row.tweet_id = post.id
          THEN [row EXCEPT !.status = status, !.rejection_reason = reason]
          ELSE row : row \in table}
    ELSE table \cup {[tweet_id |-> post.id, status |-> status,
                      rejection_reason |-> reason, session_id |-> session_id]}

\* for post in posts: _log_post_processing(post, status, reason)
RECURSIVE LogAll(_, _, _, _, _)
LogAll(table, ps, status, reason, session_id) ==
    IF Len(ps) = 0 THEN table
    ELSE LogAll(LogPostProcessing(table, Head(ps), status, reason, session_id),
                Tail(ps), status, reason, session_id)

\* priority_order.index(priority)
PriorityIndex(priority) ==
    CHOOSE n \in 1..Len(PriorityOrder) : PriorityOrder[n] = priority

\* analyze_post attaches the analysis to the post
Analyzed(post) == [post EXCEPT !.commercial_signals = AnalyzePost(post)]

\* filter_posts_batch(posts), min_priority='medium': every post is analysed
CommercialFilterPostsBatch(ps) ==
    LET analyzed == [i \in 1..Len(ps) |-> Analyzed(ps[i])]
        ok(p) == PriorityIndex(p.commercial_signals.priority) <= PriorityIndex("medium")
    IN  [passed |-> SelectSeq(analyzed, LAMBDA p : ok(p)),
         rejected |-> SelectSeq(analyzed, LAMBDA p : ~ok(p))]

\* the sort key of rank_posts_by_priority orders a before b
PriorityKeyLess(a, b) ==
    \/ PriorityIndex(a.commercial_signals.priority)
         < PriorityIndex(b.commercial_signals.priority)
    \/ /\ a.commercial_signals.priority = b.commercial_signals.priority
       /\ a.commercial_signals.commercial_score > b.commercial_signals.commercial_score

\* sorted() is stable: a post goes behind the posts that do not come after it
RECURSIVE InsertByPriority(_, _)
InsertByPriority(p, sorted) ==
    IF Len(sorted) = 0 THEN <<p>>
    ELSE IF PriorityKeyLess(p, Head(sorted))
    THEN <<p>> \o sorted
    ELSE <<Head(sorted)>> \o InsertByPriority(p, Tail(sorted))

RECURSIVE RankFrom(_, _)
RankFrom(ps, sorted) ==
    IF Len(ps) = 0 THEN sorted
    ELSE RankFrom(Tail(ps), InsertByPriority(Head(ps), sorted))

\* rank_posts_by_priority
RankPostsByPriority(ps) == RankFrom(ps, <<>>)

\* score_post attaches the result to the post
Scored(post, t) == [post EXCEPT !.score = ScorePost(post, t)]

InsertLast(p, sorted) == sorted \o <<p>>

\* sorted(..., key=total_score, reverse=True), stable
RECURSIVE InsertByScore(_, _)
InsertByScore(p, sorted) ==
    IF Len(sorted) = 0 THEN <<p>>
    ELSE IF p.score.total_score > Head(sorted).score.total_score
    THEN <<p>> \o sorted
    ELSE <<Head(sorted)>> \o InsertByScore(p, Tail(sorted))

RECURSIVE SortFrom(_, _)
SortFrom(ps, sorted) ==
    IF Len(ps) = 0 THEN sorted
    ELSE SortFrom(Tail(ps), InsertByScore(Head(ps), sorted))

\* filter_and_rank: the threshold is compared with the rounded total
FilterAndRank(ps, t, apply_threshold) ==
    LET scored_posts == [i \in 1..Len(ps) |-> Scored(ps[i], t)]
        kept == IF apply_threshold
                THEN SelectSeq(scored_posts,
                               LAMBDA p : p.score.total_score
                                            >= Scoring.thresholds.minimum_score)
                ELSE scored_posts
    IN  SortFrom(kept, <<>>)

\* the tweets of the rejected list of the deduplication
RejectedTweets(rejected) == [i \in 1..Len(rejected) |-> rejected[i].tweet]

AfterStageGoesOn(ps, next_pc) ==
    /\ r_posts' = ps
    /\ r_pc' = next_pc
    /\ r_status' = r_status

\* run_session returns stats without a status when a stage leaves nothing
AfterStage(ps, next_pc) ==
    /\ r_posts' = ps
    /\ r_pc' = IF Len(ps) = 0 THEN "idle" ELSE next_pc
    /\ r_status' = IF Len(ps) = 0 THEN "ended" ELSE r_status

RunSessionScrapesAnyway ==
    /\ r_pc = "idle"
    /\ r_no < MaxRuns
    /\ r_no' = r_no + 1
    /\ r_calls' = {}
    /\ r_scraped' = <<>>
    /\ r_handed' = <<>>
    /\ r_queued' = <<>>
    /\ r_sent' = 0
    /\ r_posts' = <<>>
    /\ r_i' = 1
    /\ r_sub' = "insert"
    /\ r_with_replies' = <<>>
    /\ r_pc' = "scrape"
    /\ r_status' \in {"running", "skipped"}
    /\ UNCHANGED <<scraped_tweets, approval_queue>>
    /\ UNCHANGED <<dedupVars, sessionVars, llmVars, pureVars>>

\* a new orchestrator starts run_session; outside the active hours it
\* returns at once
RunSession ==
    /\ r_pc = "idle"
    /\ r_no < MaxRuns
    /\ r_no' = r_no + 1
    /\ r_calls' = {}
    /\ r_scraped' = <<>>
    /\ r_handed' = <<>>
    /\ r_queued' = <<>>
    /\ r_sent' = 0
    /\ r_posts' = <<>>
    /\ r_i' = 1
    /\ r_sub' = "insert"
    /\ r_with_replies' = <<>>
    /\ \E is_active_hours \in BOOLEAN :
          IF is_active_hours
          THEN r_pc' = "scrape" /\ r_status' = "running"
          ELSE r_pc' = "idle" /\ r_status' = "skipped"
    /\ UNCHANGED <<scraped_tweets, approval_queue>>
    /\ UNCHANGED <<dedupVars, sessionVars, llmVars, pureVars>>

\* step 1: _scrape_content; every scraped post is logged as 'scraped'
ScrapeContent ==
    /\ r_pc = "scrape"
    /\ \E b \in RunBatches :
          /\ r_scraped' = b
          /\ scraped_tweets' = LogAll(scraped_tweets, b, "scraped", NoReason, r_no)
          /\ AfterStage(b, "base")
    /\ r_calls' = r_calls \cup {"scraper"}
    /\ UNCHANGED <<r_no, r_i, r_sub, r_with_replies, r_handed, r_queued, r_sent, approval_queue>>
    /\ UNCHANGED <<dedupVars, sessionVars, llmVars, pureVars>>

\* step 2: _apply_base_filters; an exception of the filter ends the run
\* with status 'error' and an alert
ApplyBaseFilters ==
    /\ r_pc = "base"
    /\ IF \E i \in 1..Len(r_posts) : r_posts[i].base.outcome = "raise"
       THEN /\ r_status' = "error"
            /\ r_pc' = "idle"
            /\ r_calls' = r_calls \cup {"telegram"}
            /\ UNCHANGED <<r_posts, scraped_tweets>>
       ELSE /\ scraped_tweets' =
                  LogAll(scraped_tweets,
                         SelectSeq(r_posts, LAMBDA p : p.base.outcome = "reject"),
                         "filtered", <<"Base filter rejection">>, r_no)
            /\ AfterStage(SelectSeq(r_posts, LAMBDA p : p.base.outcome = "pass"),
                          "commercial")
            /\ UNCHANGED <<r_calls>>
    /\ UNCHANGED <<r_no, r_i, r_sub, r_with_replies, r_scraped, r_handed, r_queued, r_sent,
                   approval_queue>>
    /\ UNCHANGED <<dedupVars, sessionVars, llmVars, pureVars>>

\* step 3: _apply_commercial_filters; the passed posts are logged as
\* 'analyzed' and ranked
ApplyCommercialFilters ==
    /\ r_pc = "commercial"
    /\ LET passed == CommercialFilterPostsBatch(r_posts).passed
       IN  /\ scraped_tweets' = LogAll(scraped_tweets, passed, "analyzed", NoReason, r_no)
           /\ AfterStage(RankPostsByPriority(passed), "score")
    /\ UNCHANGED <<r_no, r_i, r_sub, r_with_replies, r_calls, r_scraped, r_handed,
                   r_queued, r_sent, approval_queue>>
    /\ UNCHANGED <<dedupVars, sessionVars, llmVars, pureVars>>

\* step 4: _score_and_rank_posts; the kept posts are logged as 'scored'
ScoreAndRank ==
    /\ r_pc = "score"
    /\ LET scored_posts == FilterAndRank(r_posts, ScoreEpoch, TRUE)
       IN  /\ scraped_tweets' = LogAll(scraped_tweets, scored_posts, "scored",
                                       NoReason, r_no)
           /\ AfterStage(scored_posts, "dedup")
    /\ UNCHANGED <<r_no, r_i, r_sub, r_with_replies, r_calls, r_scraped, r_handed,
                   r_queued, r_sent, approval_queue>>
    /\ UNCHANGED <<dedupVars, sessionVars, llmVars, pureVars>>

\* step 5: _apply_deduplication; the rejected posts are logged as
\* 'deduplicated'
ApplyDedup ==
    /\ r_pc = "dedup"
    /\ LET batch == FilterTweetsBatch(r_posts, replied_tweets, utcnow)
       IN  /\ scraped_tweets' = LogAll(scraped_tweets, RejectedTweets(batch.rejected),
                                       "deduplicated", <<"Already replied">>, r_no)
           /\ AfterStage(batch.eligible, "draft")
    /\ r_i' = 1
    /\ r_with_replies' = <<>>
    /\ UNCHANGED <<r_no, r_sub, r_calls, r_scraped, r_handed, r_queued, r_sent, approval_queue>>
    /\ UNCHANGED <<dedupVars, sessionVars, llmVars, pureVars>>

GenerateReplyOrAbort ==
    /\ r_pc = "draft"
    /\ LET posts_to_process == PostsToProcess(r_posts)
           post == posts_to_process[r_i]
           last == r_i = Len(posts_to_process)
       IN  /\ r_handed' = Append(r_handed, post.id)
           /\ r_calls' = r_calls \cup {"llm"}
           /\ \/ /\ r_with_replies' = Append(r_with_replies, post)
                 /\ scraped_tweets' = LogPostProcessing(scraped_tweets, post,
                                                        "reply_generated", NoReason, r_no)
                 /\ IF ~last
                    THEN r_i' = r_i + 1 /\ UNCHANGED <<r_pc, r_status, r_posts>>
                    ELSE /\ r_i' = 1
                         /\ r_posts' = r_with_replies'
                         /\ r_pc' = "send"
                         /\ r_status' = r_status
              \/ \E e \in DraftErrors :
                    /\ r_with_replies' = r_with_replies
                    /\ scraped_tweets' = LogPostProcessing(scraped_tweets, post,
                                                           "error", e, r_no)
                    /\ r_i' = 1
                    /\ r_pc' = "idle"
                    /\ r_status' = "error"
                    /\ UNCHANGED <<r_posts>>
    /\ UNCHANGED <<r_no, r_sub, r_scraped, r_queued, r_sent, approval_queue>>
    /\ UNCHANGED <<dedupVars, sessionVars, llmVars, pureVars>>

\* step 6, one turn of the loop of _generate_replies over
\* posts[:session_limit]: the reply is generated and logged, or the
\* exception is logged as 'error'; after the last post step 7 starts, and
\* with nothing to send the run ends with status 'success'
GenerateReplyForPost ==
    /\ r_pc = "draft"
    /\ LET posts_to_process == PostsToProcess(r_posts)
           post == posts_to_process[r_i]
           last == r_i = Len(posts_to_process)
       IN  /\ r_handed' = Append(r_handed, post.id)
           /\ r_calls' = r_calls \cup {"llm"}
           /\ \/ /\ r_with_replies' = Append(r_with_replies, post)
                 /\ scraped_tweets' = LogPostProcessing(scraped_tweets, post,
                                                        "reply_generated", NoReason, r_no)
              \/ \E e \in DraftErrors :
                    /\ r_with_replies' = r_with_replies
                    /\ scraped_tweets' = LogPostProcessing(scraped_tweets, post,
                                                           "error", e, r_no)
           /\ IF ~last
              THEN r_i' = r_i + 1 /\ UNCHANGED <<r_pc, r_status, r_posts>>
              ELSE /\ r_i' = 1
                   /\ r_posts' = r_with_replies'
                   /\ r_pc' = IF Len(r_with_replies') = 0 THEN "idle" ELSE "send"
                   /\ r_status' = IF Len(r_with_replies') = 0 THEN "success" ELSE r_status
    /\ UNCHANGED <<r_no, r_sub, r_scraped, r_queued, r_sent, approval_queue>>
    /\ UNCHANGED <<dedupVars, sessionVars, llmVars, pureVars>>

\* the loop of _send_for_approval moves to the next post, or the run ends
\* with status 'success'
NextToSend ==
    /\ r_sub' = "insert"
    /\ IF r_i < Len(r_posts)
       THEN r_i' = r_i + 1 /\ UNCHANGED <<r_pc, r_status>>
       ELSE r_i' = 1 /\ r_pc' = "idle" /\ r_status' = "success"

\* step 7, session.add(queue_entry); session.commit(): the entry is
\* committed, or the commit raises and the post is skipped
QueueInsert ==
    /\ r_pc = "send"
    /\ r_sub = "insert"
    /\ \/ /\ UniqueTweetPerSession(approval_queue, r_posts[r_i].id, r_no)
          /\ approval_queue' = approval_queue \cup
                {[tweet_id |-> r_posts[r_i].id, session_id |-> r_no]}
          /\ r_queued' = Append(r_queued, r_posts[r_i].id)
          /\ r_sub' = "log"
          /\ UNCHANGED <<r_i, r_pc, r_status>>
       \/ /\ UNCHANGED <<approval_queue, r_queued>>
          /\ NextToSend
    /\ UNCHANGED r_sent
    /\ UNCHANGED <<r_no, r_posts, r_with_replies, r_calls, r_scraped, r_handed,
                   scraped_tweets>>
    /\ UNCHANGED <<dedupVars, sessionVars, llmVars, pureVars>>

QueuedBeforeInsert ==
    /\ r_pc = "send"
    /\ r_sub = "insert"
    /\ scraped_tweets' = LogPostProcessing(scraped_tweets, r_posts[r_i], "queued",
                                           NoReason, r_no)
    /\ r_sub' = "notify"
    /\ UNCHANGED <<r_no, r_pc, r_status, r_posts, r_i, r_with_replies, r_calls,
                   r_scraped, r_handed, r_queued, r_sent, approval_queue>>
    /\ UNCHANGED <<dedupVars, sessionVars, llmVars, pureVars>>

\* step 7, _log_post_processing(post, 'queued') after the commit
LogQueued ==
    /\ r_pc = "send"
    /\ r_sub = "log"
    /\ scraped_tweets' = LogPostProcessing(scraped_tweets, r_posts[r_i], "queued",
                                           NoReason, r_no)
    /\ r_sub' = "notify"
    /\ UNCHANGED <<r_no, r_pc, r_status, r_posts, r_i, r_with_replies, r_calls,
                   r_scraped, r_handed, r_queued, r_sent, approval_queue>>
    /\ UNCHANGED <<dedupVars, sessionVars, llmVars, pureVars>>

\* step 7, send_approval_request: it returns and sent_count += 1, or it
\* raises and the handler rolls back (the entry is committed already);
\* either way the loop goes on
SendApprovalRequest ==
    /\ r_pc = "send"
    /\ r_sub = "notify"
    /\ r_calls' = r_calls \cup {"telegram"}
    /\ \E raised \in BOOLEAN : r_sent' = IF raised THEN r_sent ELSE r_sent + 1
    /\ NextToSend
    /\ UNCHANGED <<r_no, r_posts, r_with_replies, r_scraped, r_handed, r_queued,
                   scraped_tweets, approval_queue>>
    /\ UNCHANGED <<dedupVars, sessionVars, llmVars, pureVars>>

(***************************************************************************)
(* PostScorer.filter_and_rank on lists of posts around the threshold       *)
(***************************************************************************)
MaxRankBatch == 2

\* a Reddit post of 249 upvotes on 100000 views, two hours old: velocity
\* 62.49, authority 30, timing 65, discussion 30, total 49.996
RankPost ==
    [RunPost EXCEPT !.id = "r1", !.platform = "reddit", !.text = <<"hello">>,
                    !.likes = 249, !.replies = 300, !.impressions = 100000,
                    !.followers_count = 0, !.is_verified = FALSE,
                    !.question = FALSE, !.length = 201]

\* the same post with 250 upvotes (total 50.00), with 248 (49.992), with
\* none (25.00), by a verified author (55.996), and the Twitter post of the
\* runs (33.3 without its analysis)
RankedPosts ==
    {RankPost,
     [RankPost EXCEPT !.id = "r2", !.likes = 250],
     [RankPost EXCEPT !.id = "r3", !.likes = 248],
     [RankPost EXCEPT !.id = "r4", !.likes = 0],
     [RankPost EXCEPT !.id = "r5", !.is_verified = TRUE],
     RunPost}

RankBatches == {b \in UNION {[1..n -> RankedPosts] : n \in 0..MaxRankBatch} :
                   \A i, j \in 1..Len(b) : b[i].id = b[j].id => i = j}

\* filter_and_rank(posts, apply_threshold) is called
FilterAndRankCall ==
    /\ fr_result = NoResult
    /\ fr_result' = [posts |-> FilterAndRank(fr_posts, s_now, fr_apply_threshold)]
    /\ UNCHANGED <<fr_posts, fr_apply_threshold>>
    /\ UNCHANGED <<dedupVars, sessionVars, llmVars, runVars, filterVars, commercialVars,
                   scoreVars, gateVars, dbVars, threadVars, processVars,
                   configVars, windowVars>>

(***************************************************************************)
(* TimingController.is_active_hours (src/src/timing/scheduler.py).  Times  *)
(* are counted in minutes, the precision of the configured window; the     *)
(* timezone is Europe/London, whose offset from UTC is 0 or 60 minutes.    *)
(***************************************************************************)
MinutesPerDay == HoursPerDay * 60

\* _parse_time of 'HH:MM', in minutes of the day
ParseTime(hour, minute) == hour * 60 + minute

\* the windows the model is configured with: until midnight, until 22:00,
\* and one that starts in the night
ActiveWindows ==
    {[start |-> ParseTime(7, 0), end |-> ParseTime(0, 0)],
     [start |-> ParseTime(7, 0), end |-> ParseTime(22, 0)],
     [start |-> ParseTime(0, 30), end |-> ParseTime(22, 0)]}

\* the instants asked about: the minutes around midnight and around the
\* edges of the windows, in GMT and in BST
CheckTimes ==
    UNION {{m - 1, m, m + 1} : m \in {ParseTime(6, 0), ParseTime(7, 0),
                                       ParseTime(21, 0), ParseTime(22, 0),
                                       ParseTime(23, 30) }}
    \cup {0, 1, MinutesPerDay - 1}

\* the offsets of Europe/London: GMT and BST
UtcOffsets == {0, 60}

\* check_time.astimezone(self.uk_tz).time()
UkTimeOfDay(check_time, utc_offset) == (check_time + utc_offset) % MinutesPerDay

IsActiveHoursNoMidnightCase(active_hours, check_time, utc_offset) ==
    LET current_time == UkTimeOfDay(check_time, utc_offset)
    IN  active_hours.start <= current_time /\ current_time < active_hours.end

\* is_active_hours
IsActiveHours(active_hours, check_time, utc_offset) ==
    LET current_time == UkTimeOfDay(check_time, utc_offset)
    IN  IF active_hours.end = ParseTime(0, 0)
        THEN active_hours.start <= current_time \/ current_time < active_hours.end
        ELSE active_hours.start <= current_time /\ current_time < active_hours.end

\* is_active_hours(check_time) is called
IsActiveHoursCall ==
    /\ t_result = NoResult
    /\ t_result' = [is_active |-> IsActiveHours(t_active_hours, t_check_time, t_utc_offset)]
    /\ UNCHANGED <<t_active_hours, t_check_time, t_utc_offset>>
    /\ UNCHANGED <<dedupVars, sessionVars, llmVars, runVars, filterVars, commercialVars,
                   scoreVars, dbVars, rankVars, threadVars, processVars,
                   configVars, windowVars>>

(***************************************************************************)
(* TimingController.get_next_active_window and get_time_until_active.      *)
(* Instants are minutes of UTC counted from the midnight before the day on *)
(* which the clocks may change.  The timezone is given by its offsets      *)
(* before and after the change, which Europe/London makes at 01:00 UTC.    *)
(* astimezone(uk_tz) yields a datetime whose tzinfo has the offset in      *)
(* force at that instant; replace() and + timedelta keep that tzinfo, and  *)
(* astimezone(pytz.utc) subtracts its offset.                              *)
(***************************************************************************)
ScheduleDays == 3

ClockChange == MinutesPerDay + 60

\* no change (GMT, BST), the change to BST and the change back to GMT
Zones ==
    {[before |-> b, after |-> a] : b \in UtcOffsets, a \in UtcOffsets}

\* the offset astimezone(self.uk_tz) applies at the instant
UkOffset(zone, instant) == IF instant < ClockChange THEN zone.before ELSE zone.after

FromTimes ==
    {day * MinutesPerDay + m : day \in 0..(ScheduleDays - 1), m \in CheckTimes \cup {30, 60}}

\* is_active_hours(check_time) in the timezone
IsActiveAt(active_hours, zone, instant) ==
    IsActiveHours(active_hours, instant, UkOffset(zone, instant))

\* get_next_active_window: (window_start, window_end) in UTC
GetNextActiveWindow(active_hours, zone, from_time) ==
    LET utcoffset == UkOffset(zone, from_time)
        uk_time == from_time + utcoffset
        current_time == uk_time % MinutesPerDay
        today == uk_time - current_time
        tomorrow == today + MinutesPerDay
    IN  IF IsActiveAt(active_hours, zone, from_time)
        THEN <<from_time, today + active_hours.end - utcoffset>>
        ELSE LET window_start == IF current_time < active_hours.start
                                 THEN today + active_hours.start
                                 ELSE tomorrow + active_hours.start
                 window_end == (window_start - active_hours.start) + active_hours.end
             IN  <<window_start - utcoffset, window_end - utcoffset>>

NoneValue == [none |-> "None"]

\* get_time_until_active
GetTimeUntilActive(active_hours, zone, from_time) ==
    IF IsActiveAt(active_hours, zone, from_time)
    THEN NoneValue
    ELSE [delta |-> GetNextActiveWindow(active_hours, zone, from_time)[1] - from_time]

WindowFrame ==
    /\ UNCHANGED <<w_active_hours, w_from_time, w_zone>>
    /\ UNCHANGED <<dedupVars, sessionVars, llmVars, runVars, filterVars, commercialVars,
                   scoreVars, gateVars, dbVars, rankVars, threadVars, processVars,
                   configVars>>

\* get_time_until_active(from_time) is called
GetTimeUntilActiveCall ==
    /\ w_result = NoResult
    /\ w_result' = [until_active |->
                       GetTimeUntilActive(w_active_hours, w_zone, w_from_time)]
    /\ WindowFrame

\* get_next_active_window(from_time) is called
GetNextActiveWindowCall ==
    /\ w_result = NoResult
    /\ w_result' = [window |-> GetNextActiveWindow(w_active_hours, w_zone, w_from_time)]
    /\ WindowFrame

(***************************************************************************)
(* ScoutDB: the processed_posts table (src/scout/core/db.py).  The table   *)
(* is the sequence of its rows; post_id is its primary key.                *)
(***************************************************************************)
MaxMarks == 4

ScoutPostIds == {"t3_a", "t3_b", "t3_c"}

Intents == {"seeking_help", "ignore"}

\* SELECT 1 FROM processed_posts WHERE post_id = ?
SelectByPostId(table, post_id) == SelectSeq(table, LAMBDA row : row.post_id = post_id)

\* is_processed: fetchone() is not None
IsProcessed(table, post_id) == Len(SelectByPostId(table, post_id)) > 0

Insert(table, row) == Append(table, row)

\* INSERT OR REPLACE: a row with the same primary key is deleted before the
\* new row is inserted
InsertOrReplace(table, row) ==
    Append(SelectSeq(table, LAMBDA old : old.post_id # row.post_id), row)

\* is_processed(post_id) is called
IsProcessedCall ==
    /\ \E post_id \in ScoutPostIds :
           db_answer' = [post_id |-> post_id,
                         processed |-> IsProcessed(processed_posts, post_id)]
    /\ UNCHANGED <<processed_posts, db_clock, db_marked>>
    /\ UNCHANGED <<dedupVars, sessionVars, llmVars, runVars, filterVars, commercialVars,
                   scoreVars, gateVars, rankVars, threadVars, processVars,
                   configVars, windowVars>>

\* mark_processed(post_id, intent, is_relevant) is called
MarkProcessed ==
    /\ db_clock < MaxMarks
    /\ \E post_id \in ScoutPostIds, intent \in Intents, is_relevant \in BOOLEAN :
           /\ processed_posts' =
                  InsertOrReplace(processed_posts,
                                  [post_id |-> post_id, processed_at |-> db_clock + 1,
                                   intent |-> intent, is_relevant |-> is_relevant])
           /\ db_marked' = db_marked \cup {post_id}
    /\ db_clock' = db_clock + 1
    /\ db_answer' = NoResult
    /\ UNCHANGED <<dedupVars, sessionVars, llmVars, runVars, filterVars, commercialVars,
                   scoreVars, gateVars, rankVars, threadVars, processVars,
                   configVars, windowVars>>

(***************************************************************************)
(* Specifications                                                          *)
(***************************************************************************)
InitDedupIdle ==
    /\ utcnow = 0
    /\ replied_tweets = {}
    /\ d_call = NoCall
    /\ d_result = NoResult
    /\ d_exc = "none"
    /\ d_queries = <<>>
    /\ d_prev = NoResult

InitSessionIdle ==
    /\ session_no = 0
    /\ spc = "idle"
    /\ posts = <<>>
    /\ reply_queue = {}

\* a post every check accepts
SampleTweet ==
    [repr |-> "dict", platform |-> "Platform.TWITTER",
     followers_count |-> Filters.engagement.min_followers,
     likes |-> Filters.engagement.min_likes,
     replies |-> Filters.engagement.min_replies,
     created_at |-> [kind |-> "datetime",
                     age |-> Filters.recency.min_age_hours * SecondsPerHour],
     language |-> "en",
     text |-> [length |-> Filters.content_quality.min_length,
               keyword |-> FALSE, pattern |-> FALSE]]

InitFilterIdle ==
    /\ f_tweet = SampleTweet
    /\ f_result = NoResult
    /\ b_tweets = <<>>
    /\ b_result = NoResult

InitCommercialIdle ==
    /\ a_post = [text |-> <<>>, author |-> "jane doe"]
    /\ a_result = NoResult

SamplePost ==
    [platform |-> "twitter", likes |-> 0, replies |-> 0, impressions |-> 0,
     followers_count |-> 0, is_verified |-> FALSE,
     created_at |-> [kind |-> "missing", at |-> 0], question |-> FALSE,
     length |-> 50, commercial_signals |-> NoSignals, score |-> NoResult]

InitScoreIdle ==
    /\ s_now = ScoreEpoch
    /\ s_post = SamplePost
    /\ s_result = NoResult
    /\ s_again = NoResult

\* _init_db on a new database file: CREATE TABLE IF NOT EXISTS
InitDbIdle ==
    /\ processed_posts = <<>>
    /\ db_clock = 0
    /\ db_marked = {}
    /\ db_answer = NoResult

InitThreadsIdle ==
    /\ th_pc = [th \in Threads |-> "idle"]
    /\ th_usage = [th \in Threads |-> NoResult]
    /\ th_reg = [th \in Threads |-> 0]
    /\ th_calls = 0

InitProcessIdle ==
    /\ p_sessions = 1
    /\ p_spent = 0
    /\ p_over = FALSE

InitConfigIdle ==
    max_replies_per_session = MaxRepliesPerSession

InitWindowIdle ==
    /\ w_active_hours = [start |-> ParseTime(7, 0), end |-> ParseTime(0, 0)]
    /\ w_from_time = 0
    /\ w_zone = [before |-> 0, after |-> 0]
    /\ w_result = NoResult

InitRankIdle ==
    /\ fr_posts = <<>>
    /\ fr_apply_threshold = TRUE
    /\ fr_result = NoResult

InitGateIdle ==
    /\ t_active_hours = [start |-> ParseTime(7, 0), end |-> ParseTime(0, 0)]
    /\ t_check_time = 0
    /\ t_utc_offset = 0
    /\ t_result = NoResult

InitPureIdle ==
    /\ InitFilterIdle
    /\ InitCommercialIdle
    /\ InitScoreIdle
    /\ InitGateIdle
    /\ InitDbIdle
    /\ InitRankIdle
    /\ InitThreadsIdle
    /\ InitProcessIdle

InitRunIdle ==
    /\ r_pc = "idle"
    /\ r_no = 0
    /\ r_status = "none"
    /\ r_posts = <<>>
    /\ r_i = 1
    /\ r_sub = "insert"
    /\ r_with_replies = <<>>
    /\ r_calls = {}
    /\ r_scraped = <<>>
    /\ r_handed = <<>>
    /\ r_queued = <<>>
    /\ r_sent = 0
    /\ scraped_tweets = {}
    /\ approval_queue = {}

InitStagesIdle ==
    /\ InitDedupIdle
    /\ InitSessionIdle
    /\ InitPureIdle
    /\ InitConfigIdle
    /\ InitWindowIdle
    /\ InitRunIdle

InitVoiceIdle ==
    /\ v_text = <<>>
    /\ v_platform = "none"
    /\ v_result = NoResult

InitClient ==
    /\ \E b \in BudgetsUsd : daily_budget_usd = b * Million
    /\ min_request_interval = 60 \div RequestsPerMinute
    /\ total_cost_usd = 0
    /\ total_tokens = 0
    /\ last_request_time = 0
    /\ now = StartTime
    /\ cpc = "idle"
    /\ attempt_number = 0
    /\ c_caller = "direct"
    /\ c_result = NoResult
    /\ c_exc = "none"

InitGen ==
    /\ gpc = "idle"
    /\ g_platform = "twitter"
    /\ max_attempts = DefaultMaxAttempts
    /\ attempt = 0
    /\ total_cost = 0
    /\ user_prompt = BasePrompt
    /\ g_result = NoResult
    /\ g_exc = "none"

InitObs ==
    /\ http_requests = 0
    /\ invocation_sleeps = 0
    /\ request_log = "none"
    /\ returned_cost = 0
    /\ returned_formula = 0
    /\ returned_tokens = 0
    /\ g_calls = 0
    /\ g_costs = 0
    /\ g_validated = <<>>

Init ==
    /\ strict_mode \in BOOLEAN
    /\ hash_seed = 0
    /\ InitVoiceIdle
    /\ InitClient
    /\ InitGen
    /\ InitObs
    /\ InitStagesIdle

Next ==
    \/ CallGenerateCompletion
    \/ AttemptBody
    \/ HttpSuccess
    \/ HttpFailure
    \/ Backoff
    \/ DirectDone
    \/ ResetUsageStats
    \/ Tick
    \/ GenerateReply
    \/ GenLoop
    \/ GenOnResponse
    \/ GenOnError
    \/ GenDone

Spec == Init /\ [][Next]_vars

\* validate(text, platform) is called
VoiceValidate ==
    /\ v_result = NoResult
    /\ v_result' = Validate(v_text, v_platform, strict_mode, hash_seed)
    /\ UNCHANGED <<strict_mode, hash_seed, v_text, v_platform>>
    /\ UNCHANGED <<clientVars, genVars, obsVars, stageVars>>

InitVoice ==
    /\ strict_mode \in BOOLEAN
    /\ hash_seed \in {0, 1}
    /\ v_text \in Texts
    /\ v_platform \in Platforms
    /\ v_result = NoResult
    /\ daily_budget_usd = 50 * Million
    /\ min_request_interval = 60 \div RequestsPerMinute
    /\ total_cost_usd = 0
    /\ total_tokens = 0
    /\ last_request_time = 0
    /\ now = StartTime
    /\ cpc = "idle"
    /\ attempt_number = 0
    /\ c_caller = "direct"
    /\ c_result = NoResult
    /\ c_exc = "none"
    /\ InitGen
    /\ InitObs
    /\ InitStagesIdle

NextVoice == VoiceValidate

SpecVoice == InitVoice /\ [][NextVoice]_vars

InitLlmIdle ==
    /\ strict_mode = TRUE
    /\ hash_seed = 0
    /\ InitVoiceIdle
    /\ daily_budget_usd = 50 * Million
    /\ min_request_interval = 60 \div RequestsPerMinute
    /\ total_cost_usd = 0
    /\ total_tokens = 0
    /\ last_request_time = 0
    /\ now = StartTime
    /\ cpc = "idle"
    /\ attempt_number = 0
    /\ c_caller = "direct"
    /\ c_result = NoResult
    /\ c_exc = "none"
    /\ InitGen
    /\ InitObs

\* the deduplication manager over an empty history, driven by its callers
InitDedup ==
    /\ InitLlmIdle
    /\ InitRunIdle
    /\ InitStagesIdle

NextDedup ==
    \/ CheckEligibility
    \/ RecordReply
    \/ CleanupOldRecords
    \/ ClockAdvance

SpecDedup == InitDedup /\ [][NextDedup]_vars

\* sessions of the orchestrator, one after the other, over the same database;
\* the history holds what record_reply stored before the first of them
InitSession ==
    /\ InitLlmIdle
    /\ InitRunIdle
    /\ InitSessionIdle
    /\ InitPureIdle
    /\ InitConfigIdle
    /\ InitWindowIdle
    /\ utcnow = 0
    /\ replied_tweets \in {{}} \cup {{RepliedTweet(p, 0)} :
                                      p \in {q \in SocialPosts : q.id # "" /\ q.author # ""}}
    /\ d_call = NoCall
    /\ d_result = NoResult
    /\ d_exc = "none"
    /\ d_queries = <<>>
    /\ d_prev = NoResult

NextSession ==
    \/ ScoreAndRankPosts
    \/ ApplyDeduplication
    \/ GenerateReplies
    \/ SendForApproval
    \/ ClockAdvance

SpecSession == InitSession /\ [][NextSession]_vars

\* filter_tweet on every post of the model
InitFilter ==
    /\ InitLlmIdle
    /\ InitRunIdle
    /\ InitDedupIdle
    /\ InitSessionIdle
    /\ f_tweet \in Tweets
    /\ f_result = NoResult
    /\ b_tweets = <<>>
    /\ b_result = NoResult
    /\ InitCommercialIdle
    /\ InitScoreIdle
    /\ InitGateIdle
    /\ InitDbIdle
    /\ InitRankIdle
    /\ InitThreadsIdle
    /\ InitProcessIdle
    /\ InitConfigIdle
    /\ InitWindowIdle

NextFilter == FilterTweetCall

SpecFilter == InitFilter /\ [][NextFilter]_vars

MaxFilterBatch == 3

\* posts of every outcome: accepted (two of them), rejected by three different
\* checks, and the two on which filter_tweet raises
SampleTweets ==
    {SampleTweet,
     [SampleTweet EXCEPT !.platform = "Platform.REDDIT",
                         !.text.length = Filters.content_quality.reddit_max_length],
     [SampleTweet EXCEPT !.likes = Filters.engagement.min_likes - 1],
     [SampleTweet EXCEPT !.created_at.age = 0],
     [SampleTweet EXCEPT !.repr = "SocialPost",
                         !.followers_count = Filters.engagement.min_followers - 1],
     [SampleTweet EXCEPT !.repr = "SocialPost"],
     [SampleTweet EXCEPT !.created_at = [kind |-> "invalid", age |-> 0]]}

\* filter_tweets_batch on lists of those posts
InitFilterBatch ==
    /\ InitLlmIdle
    /\ InitRunIdle
    /\ InitDedupIdle
    /\ InitSessionIdle
    /\ f_tweet = SampleTweet
    /\ f_result = NoResult
    /\ b_tweets \in UNION {[1..n -> SampleTweets] : n \in 0..MaxFilterBatch}
    /\ b_result = NoResult
    /\ InitCommercialIdle
    /\ InitScoreIdle
    /\ InitGateIdle
    /\ InitDbIdle
    /\ InitRankIdle
    /\ InitThreadsIdle
    /\ InitProcessIdle
    /\ InitConfigIdle
    /\ InitWindowIdle

NextFilterBatch == FilterTweetsBatchCall

SpecFilterBatch == InitFilterBatch /\ [][NextFilterBatch]_vars

\* analyze_post on every post of the model
InitCommercial ==
    /\ InitLlmIdle
    /\ InitRunIdle
    /\ InitDedupIdle
    /\ InitSessionIdle
    /\ InitFilterIdle
    /\ a_post \in CommercialPosts
    /\ a_result = NoResult
    /\ InitScoreIdle
    /\ InitGateIdle
    /\ InitDbIdle
    /\ InitRankIdle
    /\ InitThreadsIdle
    /\ InitProcessIdle
    /\ InitConfigIdle
    /\ InitWindowIdle

NextCommercial == AnalyzePostCall

SpecCommercial == InitCommercial /\ [][NextCommercial]_vars

\* score_post, twice, on every post of the model while the clock runs
InitScore ==
    /\ InitLlmIdle
    /\ InitRunIdle
    /\ InitDedupIdle
    /\ InitSessionIdle
    /\ InitFilterIdle
    /\ InitCommercialIdle
    /\ InitGateIdle
    /\ InitDbIdle
    /\ InitRankIdle
    /\ InitThreadsIdle
    /\ InitProcessIdle
    /\ InitConfigIdle
    /\ InitWindowIdle
    /\ s_now = ScoreEpoch
    /\ s_post \in ScoredPosts
    /\ s_result = NoResult
    /\ s_again = NoResult

NextScore ==
    \/ ScorePostCall
    \/ RescorePostCall
    \/ ScoreClockAdvance

SpecScore == InitScore /\ [][NextScore]_vars

\* run_session, session after session, on every list of the model's posts
InitRun ==
    /\ InitLlmIdle
    /\ InitRunIdle
    /\ InitSessionIdle
    /\ InitPureIdle
    /\ max_replies_per_session \in {1, MaxRepliesPerSession}
    /\ InitWindowIdle
    /\ utcnow = 0
    /\ replied_tweets \in {{}, {RepliedTweet([id |-> "p1", author |-> "alice"], 0)}}
    /\ d_call = NoCall
    /\ d_result = NoResult
    /\ d_exc = "none"
    /\ d_queries = <<>>
    /\ d_prev = NoResult

NextRun ==
    \/ RunSession
    \/ ScrapeContent
    \/ ApplyBaseFilters
    \/ ApplyCommercialFilters
    \/ ScoreAndRank
    \/ ApplyDedup
    \/ GenerateReplyForPost
    \/ QueueInsert
    \/ LogQueued
    \/ SendApprovalRequest

SpecRun == InitRun /\ [][NextRun]_vars

\* is_active_hours at every instant and under every window of the model
InitGate ==
    /\ InitLlmIdle
    /\ InitRunIdle
    /\ InitDedupIdle
    /\ InitSessionIdle
    /\ InitFilterIdle
    /\ InitCommercialIdle
    /\ InitScoreIdle
    /\ InitDbIdle
    /\ InitRankIdle
    /\ InitThreadsIdle
    /\ InitProcessIdle
    /\ InitConfigIdle
    /\ InitWindowIdle
    /\ t_active_hours \in ActiveWindows
    /\ t_check_time \in CheckTimes
    /\ t_utc_offset \in UtcOffsets
    /\ t_result = NoResult

NextGate == IsActiveHoursCall

SpecGate == InitGate /\ [][NextGate]_vars

\* get_time_until_active at the instants of three days around a clock change
InitWindow ==
    /\ InitLlmIdle
    /\ InitRunIdle
    /\ InitDedupIdle
    /\ InitSessionIdle
    /\ InitPureIdle
    /\ InitConfigIdle
    /\ w_active_hours \in ActiveWindows
    /\ w_from_time \in FromTimes
    /\ w_zone \in Zones
    /\ w_result = NoResult

NextWindow ==
    \/ GetTimeUntilActiveCall
    \/ GetNextActiveWindowCall

SpecWindow == InitWindow /\ [][NextWindow]_vars

\* the processed_posts table under any sequence of reads and writes
InitDb ==
    /\ InitLlmIdle
    /\ InitRunIdle
    /\ InitDedupIdle
    /\ InitSessionIdle
    /\ InitFilterIdle
    /\ InitCommercialIdle
    /\ InitScoreIdle
    /\ InitGateIdle
    /\ InitDbIdle
    /\ InitRankIdle
    /\ InitThreadsIdle
    /\ InitProcessIdle
    /\ InitConfigIdle
    /\ InitWindowIdle

NextDb ==
    \/ IsProcessedCall
    \/ MarkProcessed

SpecDb == InitDb /\ [][NextDb]_vars

\* filter_and_rank on every list of the posts around the threshold
InitRank ==
    /\ InitLlmIdle
    /\ InitRunIdle
    /\ InitDedupIdle
    /\ InitSessionIdle
    /\ InitFilterIdle
    /\ InitCommercialIdle
    /\ InitScoreIdle
    /\ InitGateIdle
    /\ InitDbIdle
    /\ InitThreadsIdle
    /\ InitProcessIdle
    /\ InitConfigIdle
    /\ InitWindowIdle
    /\ fr_posts \in RankBatches
    /\ fr_apply_threshold \in BOOLEAN
    /\ fr_result = NoResult

NextRank == FilterAndRankCall

SpecRank == InitRank /\ [][NextRank]_vars

\* two threads share one client, constructed with the budget of the test
\* configuration
InitThreads ==
    /\ InitLlmIdle
    /\ InitRunIdle
    /\ InitDedupIdle
    /\ InitSessionIdle
    /\ InitFilterIdle
    /\ InitCommercialIdle
    /\ InitScoreIdle
    /\ InitGateIdle
    /\ InitDbIdle
    /\ InitRankIdle
    /\ InitThreadsIdle
    /\ InitProcessIdle
    /\ InitConfigIdle
    /\ InitWindowIdle

NextThreads ==
    \/ ThreadCall
    \/ ThreadResponse
    \/ ThreadLoadTokens
    \/ ThreadStoreTokens
    \/ ThreadLoadCost
    \/ ThreadStoreCost

SpecThreads == InitThreads /\ [][NextThreads]_vars

\* session after session in one process; nothing calls reset_usage_stats
InitProcess ==
    /\ strict_mode = TRUE
    /\ hash_seed = 0
    /\ InitVoiceIdle
    /\ InitClient
    /\ InitGen
    /\ InitObs
    /\ InitRunIdle
    /\ InitDedupIdle
    /\ InitSessionIdle
    /\ InitFilterIdle
    /\ InitCommercialIdle
    /\ InitScoreIdle
    /\ InitGateIdle
    /\ InitDbIdle
    /\ InitRankIdle
    /\ InitThreadsIdle
    /\ p_sessions = 1
    /\ p_spent = 0
    /\ p_over = (0 >= daily_budget_usd)
    /\ InitConfigIdle
    /\ InitWindowIdle

NextProcess ==
    \/ StartSession
    \/ CallGenerateCompletion
    \/ AttemptBody
    \/ HttpSuccess
    \/ HttpFailure
    \/ Backoff
    \/ DirectDone
    \/ Tick
    \/ GenerateReply
    \/ GenLoop
    \/ GenOnResponse
    \/ GenOnError
    \/ GenDone

SpecProcess == InitProcess /\ [][NextProcess]_vars


(***************************************************************************)
(* Properties of the budget-guarded client                                 *)
(***************************************************************************)

\* C1: whenever the body of generate_completion is entered, on the first or on
\* a later attempt, with total_cost_usd at or above daily_budget_usd, that step
\* raises the budget error without sleeping for the rate limit and without
\* issuing an HTTP request, and leaves total_cost_usd and total_tokens unchanged.
C1_BudgetGuardPreempts ==
    [][(cpc = "attempt" /\ total_cost_usd >= daily_budget_usd)
        => /\ cpc' = "raised"
           /\ c_exc' = "budget"
           /\ http_requests' = http_requests
           /\ invocation_sleeps' = invocation_sleeps
           /\ request_log' = "none"
           /\ now' = now
           /\ last_request_time' = last_request_time
           /\ total_cost_usd' = total_cost_usd
           /\ total_tokens' = total_tokens]_vars

\* a call refused by a ceiling that earlier calls have reached
C1_Witness ==
    /\ cpc = "raised"
    /\ c_exc = "budget"
    /\ daily_budget_usd > 0
    /\ total_cost_usd >= daily_budget_usd
    /\ http_requests = 0

\* C2 as stated: the cumulative cost never exceeds the ceiling.
C2_NeverAboveCeiling == total_cost_usd <= daily_budget_usd

\* C2 as amended: cost is added only by a call that was admitted while the total
\* was below the ceiling, and a request is in flight only while the total is
\* below the ceiling; the total can pass the ceiling by the cost of that one call.
C2_CeilingPreemptsNextCall ==
    [][/\ (total_cost_usd' > total_cost_usd => total_cost_usd < daily_budget_usd)
       /\ (cpc' = "request" => total_cost_usd' < daily_budget_usd)]_vars

\* the call that crossed the ceiling has been charged
C2_Witness ==
    /\ daily_budget_usd = 50 * Million
    /\ total_cost_usd > daily_budget_usd
    /\ cpc = "returned"

\* C8: one invocation issues at most 3 HTTP requests; a transient error leaves
\* the invocation only after the third request; a result is returned by attempt
\* j <= 3 after exactly j requests; tenacity waits only after a transient error
\* of the first or second attempt.
C8_RetryBoundedAtThree ==
    /\ http_requests <= 3
    /\ (cpc = "raised" /\ c_exc \in {"timeout", "network"})
         => (http_requests = 3 /\ attempt_number = 3)
    /\ cpc = "returned"
         => (attempt_number \in 1..3 /\ http_requests = attempt_number)
    /\ cpc = "backoff"
         => (c_exc \in {"timeout", "network"} /\ attempt_number < 3
             /\ http_requests = attempt_number)

\* three timeouts in a row: the third one propagates
C8_Witness ==
    /\ cpc = "raised"
    /\ c_exc = "timeout"
    /\ http_requests = 3

\* C9 as stated: an HTTP status error reaches the caller after exactly one HTTP
\* request of the invocation, with the usage totals unchanged.
C9_StatusErrorAfterOneRequest ==
    (cpc = "raised" /\ c_exc = "http_status")
        => (http_requests = 1 /\ total_cost_usd = returned_cost
            /\ total_tokens = returned_tokens)

\* C9 as amended: the request answered by an HTTP status error is the last of
\* its invocation and is not retried (one request when it is the first attempt,
\* j requests when j - 1 transient failures preceded it); the error reaches the
\* caller with total_cost_usd and total_tokens unchanged.
C9_StatusErrorNotRetried ==
    [][/\ (cpc = "request" /\ c_exc' = "http_status")
            => /\ cpc' = "raised"
               /\ http_requests' = http_requests
               /\ http_requests = attempt_number
               /\ total_cost_usd' = total_cost_usd
               /\ total_tokens' = total_tokens
       /\ (cpc = "raised" /\ c_exc = "http_status")
            => /\ cpc' = "idle"
               /\ http_requests' = 0
               /\ total_cost_usd' = total_cost_usd
               /\ total_tokens' = total_tokens]_vars

\* a status error on the first request, after earlier calls were charged
C9_Witness ==
    /\ cpc = "raised"
    /\ c_exc = "http_status"
    /\ http_requests = 1
    /\ total_cost_usd > 0

C11_RequestsSpacedByInterval ==
    [][(cpc = "attempt" /\ cpc' = "request")
        => /\ now' - last_request_time >= min_request_interval
           /\ last_request_time' = now'
           /\ (now - last_request_time < min_request_interval)
                => /\ now' = last_request_time + min_request_interval
                   /\ request_log' = "sleep+request"
                   /\ invocation_sleeps' = invocation_sleeps + 1
           /\ (now - last_request_time >= min_request_interval)
                => /\ now' = now
                   /\ request_log' = "request"
                   /\ invocation_sleeps' = invocation_sleeps]_vars

\* a retry two seconds after the failed request sleeps the remaining second
C11_Witness ==
    /\ cpc = "request"
    /\ attempt_number = 2
    /\ request_log = "sleep+request"
    /\ invocation_sleeps = 1

(***************************************************************************)
(* Properties of generate_reply                                            *)
(***************************************************************************)
AllInvalid(verdicts) == \A i \in 1..Len(verdicts) : ~verdicts[i]

\* C3: a reply that generate_reply returns validates (the validator accepts the
\* returned text, and accepted the last attempt); when max_attempts attempts
\* were all invalid, generate_reply has returned nothing and raises the
\* failed-to-generate error after exactly max_attempts LLM calls.
C3_NeverReturnsInvalidReply ==
    /\ gpc = "returned"
         => /\ Validate(g_result.reply_text, g_platform, strict_mode, hash_seed).is_valid
            /\ g_result.validation
                 = Validate(g_result.reply_text, g_platform, strict_mode, hash_seed)
            /\ Len(g_validated) > 0
            /\ g_validated[Len(g_validated)]
    /\ (gpc = "raised" /\ g_exc = "no_valid_reply")
         => /\ g_calls = max_attempts
            /\ Len(g_validated) = max_attempts
            /\ AllInvalid(g_validated)
    /\ (gpc \in {"loop", "calling", "returned", "raised"}
        /\ Len(g_validated) = max_attempts /\ AllInvalid(g_validated))
         => /\ g_result = NoResult
            /\ gpc \in {"loop", "raised"}
            /\ gpc = "raised" => g_exc = "no_valid_reply"
            /\ g_calls = max_attempts

\* three invalid attempts out of three
C3_Witness ==
    /\ gpc = "raised"
    /\ g_exc = "no_valid_reply"
    /\ max_attempts = 3
    /\ g_calls = 3

\* C4: generate_reply returns at the first attempt k whose text validates, with
\* attempt_number = k in 1..max_attempts, after exactly k LLM calls; once an
\* attempt has validated, the invocation has returned and calls no more.
C4_ReturnsAtFirstValidAttempt ==
    /\ gpc = "returned"
         => /\ g_result.attempt_number \in 1..max_attempts
            /\ g_result.attempt_number = Len(g_validated)
            /\ g_calls = g_result.attempt_number
            /\ AllInvalid(SubSeq(g_validated, 1, Len(g_validated) - 1))
            /\ g_validated[Len(g_validated)]
            /\ cpc = "idle"
    /\ (\E i \in 1..Len(g_validated) : g_validated[i]) => gpc = "returned"

\* an invalid first attempt, a valid second one
C4_Witness ==
    /\ gpc = "returned"
    /\ g_result.attempt_number = 2
    /\ g_calls = 2
    /\ max_attempts = 3

\* C5: llm_cost_usd of the returned result is the sum of the costs of all LLM
\* calls of the invocation, the failed attempts included.
C5_CostSumsAllAttempts ==
    gpc = "returned" => g_result.llm_cost_usd = g_costs

\* an 18-dollar invalid attempt followed by a 30-dollar valid one
C5_Witness ==
    /\ gpc = "returned"
    /\ g_result.attempt_number = 2
    /\ g_result.llm_cost_usd = 48 * Million
    /\ total_cost = 48 * Million

(***************************************************************************)
(* Properties of the validator                                             *)
(***************************************************************************)
MentionsExclamation(violations) ==
    \E i \in 1..Len(violations) : violations[i] = ExclamationViolation

\* C6: for every text containing an exclamation mark, every platform and either
\* strict_mode setting, validate returns is_valid = false with a violation that
\* mentions the exclamation mark.
C6_ExclamationAlwaysInvalid ==
    (v_result # NoResult /\ HasExclamation(v_text))
        => (~v_result.is_valid /\ MentionsExclamation(v_result.violations))

\* C7: a text for which validate finds no violation is valid, whatever the
\* number of warnings and whatever strict_mode.
C7_WarningsNeverInvalidate ==
    (v_result # NoResult /\ Len(v_result.violations) = 0) => v_result.is_valid

\* no violation and three warnings, in lenient mode
C7_Witness ==
    /\ v_result # NoResult
    /\ ~strict_mode
    /\ Len(v_result.violations) = 0
    /\ Len(v_result.warnings) >= 3
    /\ v_result.is_valid

(***************************************************************************)
(* Properties of the deduplication manager                                 *)
(***************************************************************************)
\* the step is a call of check_tweet_eligibility
CheckStep == d_call'.op = "check" /\ d_call'.at = utcnow /\ utcnow' = utcnow

\* C12: once record_reply has stored a row for an item and its author, every
\* later check of that item made within history_days of the row is answered
\* ineligible with the already-replied reason, and every later check of
\* another item (one with no row of its own in the history window) by the same
\* author made within same_author_cooldown_hours of the row is answered
\* ineligible with the cooldown reason.
C12_RecordedItemAndAuthorRejected ==
    [][CheckStep =>
         \A r \in replied_tweets :
            /\ (/\ r.tweet_id = d_call'.tweet_id
                /\ utcnow - r.replied_at <= HistoryDays * HoursPerDay)
                 => d_result' = [eligible |-> FALSE,
                                 reason |-> <<"Already replied to tweet",
                                              d_call'.tweet_id>>]
            /\ (/\ r.tweet_id # d_call'.tweet_id
                /\ r.author_username = d_call'.author_username
                /\ utcnow - r.replied_at <= SameAuthorCooldownHours
                /\ ~\E q \in replied_tweets :
                       /\ q.tweet_id = d_call'.tweet_id
                       /\ utcnow - q.replied_at <= HistoryDays * HoursPerDay)
                 => d_result' = [eligible |-> FALSE,
                                 reason |-> <<"Author on cooldown",
                                              d_call'.author_username>>]]_vars

\* a check of another item of a recorded author, made on the last hour of the
\* cooldown, was answered with the cooldown reason
C12_Witness ==
    /\ d_call.op = "check"
    /\ d_result = [eligible |-> FALSE,
                   reason |-> <<"Author on cooldown", d_call.author_username>>]
    /\ \E r \in replied_tweets :
          /\ r.author_username = d_call.author_username
          /\ r.tweet_id # d_call.tweet_id
          /\ d_call.at - r.replied_at = SameAuthorCooldownHours

\* C13: check_tweet_eligibility only reads: a call leaves the history as it
\* was; a call that repeats the call before it (same item, same author, same
\* instant, nothing recorded in between) returns what that call returned; and
\* it returns eligible whenever the history holds no row of the item in the
\* history window, none of the author in the cooldown and fewer rows than
\* either cap.
C13_CheckReadsOnly ==
    [][CheckStep =>
         /\ replied_tweets' = replied_tweets
         /\ (d_prev' # NoResult) => d_result' = d_prev'
         /\ (/\ ~\E r \in replied_tweets :
                    \/ /\ r.tweet_id = d_call'.tweet_id
                       /\ utcnow - r.replied_at <= HistoryDays * HoursPerDay
                    \/ /\ r.author_username = d_call'.author_username
                       /\ utcnow - r.replied_at <= SameAuthorCooldownHours
             /\ CountSince(replied_tweets, utcnow - 1) < MaxRepliesPerHour
             /\ CountSince(replied_tweets, utcnow - HoursPerDay) < MaxRepliesPerDay)
               => d_result' = [eligible |-> TRUE, reason |-> NoReason]]_vars

\* the same check was made twice in a row, over a history that holds a row of
\* another author, and was answered eligible both times
C13_Witness ==
    /\ d_call.op = "check"
    /\ d_prev = [eligible |-> TRUE, reason |-> NoReason]
    /\ d_result = [eligible |-> TRUE, reason |-> NoReason]
    /\ \E r \in replied_tweets : utcnow - r.replied_at <= 1

(***************************************************************************)
(* Properties of the orchestrator's sessions                               *)
(***************************************************************************)
\* C14: a batch never exceeds the rate limits: at every call of the
\* deduplication batch filter, the rows of the last rolling hour plus the
\* posts returned as eligible are at most max_replies_per_hour, and the rows
\* of the last rolling day plus the posts returned as eligible are at most
\* max_replies_per_day.
C14_BatchWithinRateLimits ==
    [][(spc = "scored" /\ spc' # "scored") =>
         /\ CountSince(replied_tweets, utcnow - 1) + Len(posts') <= MaxRepliesPerHour
         /\ CountSince(replied_tweets, utcnow - HoursPerDay) + Len(posts')
              <= MaxRepliesPerDay]_vars

\* C15: over any sequence of sessions the approval queue holds at most one
\* entry for a given post id: a post queued in one session is not drafted and
\* queued again in a later one.
C15_OneQueueEntryPerPost ==
    \A tweet_id \in TweetIds :
        Cardinality({q \in reply_queue : q.tweet_id = tweet_id}) <= 1

(***************************************************************************)
(* Properties of the base filter                                           *)
(***************************************************************************)
\* C16: filter_tweet returns (False, reason) with the reason of the first of
\* engagement, recency, language and content quality that fails, and
\* (True, None) exactly when all four pass; a post that is not a Reddit post,
\* has a follower count in range and fewer likes than min_likes is rejected
\* with the too-few-likes reason, whatever its age.
C16_FirstFailingCheckDecides ==
    (f_result # NoResult) =>
        /\ f_result.raised = "none"
        /\ f_result.passes <=> /\ CheckEngagement(f_tweet).passes
                               /\ CheckRecency(f_tweet).passes
                               /\ CheckLanguage(f_tweet).passes
                               /\ CheckContentQuality(f_tweet).passes
        /\ (/\ f_tweet.platform # "Platform.REDDIT"
            /\ f_tweet.followers_count >= Filters.engagement.min_followers
            /\ f_tweet.followers_count <= Filters.engagement.max_followers
            /\ f_tweet.likes < Filters.engagement.min_likes)
              => f_result = Rejects(<<"Too few likes", f_tweet.likes,
                                      Filters.engagement.min_likes>>)

TierHit(tier, post) ==
    \E k \in 1..Len(Commercial.priority_keywords[tier]) :
        \E i \in 1..Len(post.text) :
            InString(LowerCase(Commercial.priority_keywords[tier][k]),
                     LowerCase(post.text[i]))

\* C18: analyze_post assigns the most valuable of critical, high,
\* medium_high and medium that has a case-insensitive keyword hit in the
\* text, and baseline when none has; a text with a critical keyword is
\* critical whatever else it holds; matched_keywords holds keywords of the
\* winning tier only, and all of those that hit.
C18_MostValuableTierWins ==
    (a_result # NoResult) =>
        /\ \A n \in 1..4 :
              (a_result.priority = PriorityOrder[n])
                <=> /\ TierHit(PriorityOrder[n], a_post)
                    /\ \A m \in 1..(n - 1) : ~TierHit(PriorityOrder[m], a_post)
        /\ (a_result.priority = "baseline")
              <=> \A n \in 1..4 : ~TierHit(PriorityOrder[n], a_post)
        /\ TierHit("critical", a_post) => a_result.priority = "critical"
        /\ (a_result.priority = "baseline") => a_result.matched_keywords = <<>>
        /\ (a_result.priority # "baseline") =>
              /\ Len(a_result.matched_keywords) > 0
              /\ \A j \in 1..Len(a_result.matched_keywords) :
                    \E k \in 1..Len(Commercial.priority_keywords[a_result.priority]) :
                       a_result.matched_keywords[j]
                         = Commercial.priority_keywords[a_result.priority][k]

\* a text that holds a medium keyword before a critical one written in
\* another case than the configured keyword was classified critical
C18_Witness ==
    /\ a_result # NoResult
    /\ a_post.text = <<"Struggling pre-launch", "Imposter Syndrome hits">>
    /\ a_result.priority = "critical"
    /\ a_result.matched_keywords = <<"imposter syndrome">>

\* the position of a tier in the order of value, 1 for the most valuable
TierRank(tier) == CHOOSE n \in 1..Len(PriorityOrder) : PriorityOrder[n] = tier

\* the scored post with the analysis of another post attached instead
Twin(signals) == [s_post EXCEPT !.commercial_signals = signals]

\* C19: the multiplier of an analysis is the entry of its tier in the table
\* critical 3.0, high 2.0, medium_high 1.5, medium 1.2, baseline 1.0
\* (tenths here) whatever else was matched, the table decreases strictly
\* from critical to baseline, and a post scored with its tier never gets a
\* higher total than the same post carrying an analysis of a more valuable
\* tier, scored at the same instant.
C19_TierAloneSetsMultiplier ==
    /\ \A signals \in CommercialSignals \ {NoSignals} :
          signals.multiplier
            = CASE signals.priority = "critical" -> 30
                [] signals.priority = "high" -> 20
                [] signals.priority = "medium_high" -> 15
                [] signals.priority = "medium" -> 12
                [] signals.priority = "baseline" -> 10
    /\ \A n \in 1..(Len(PriorityOrder) - 1) :
          PriorityMultipliers[PriorityOrder[n]] > PriorityMultipliers[PriorityOrder[n + 1]]
    /\ (s_result # NoResult /\ s_post.commercial_signals # NoSignals) =>
          \A signals \in CommercialSignals \ {NoSignals} :
             TierRank(signals.priority) < TierRank(s_post.commercial_signals.priority)
               => ScorePost(Twin(signals), s_result.at).total_score
                    >= s_result.scoring_result.total_score

\* a post of the medium tier was scored below the cap, and its critical
\* twin scores strictly higher
C19_Witness ==
    /\ s_result # NoResult
    /\ s_post.commercial_signals # NoSignals
    /\ s_post.commercial_signals.priority = "medium"
    /\ s_post.commercial_signals.multiplier = 12
    /\ \E signals \in CommercialSignals \ {NoSignals} :
          /\ signals.priority = "critical"
          /\ signals.multiplier = 30
          /\ ScorePost(Twin(signals), s_result.at).total_score
                > s_result.scoring_result.total_score

\* the five scores of a result
ScoresOf(result) ==
    {result.total_score, result.engagement_velocity_score,
     result.user_authority_score, result.timing_score, result.discussion_score}

\* C20: every result of score_post, whatever the post and the multiplier
\* attached to it, has its total and its four component scores between 0
\* and 100 (hundredths here), and a second call on the post that carries
\* the score of the first, made at the same instant, returns the same
\* result.
C20_ScoresInRangeAndRepeatable ==
    /\ (s_result # NoResult) =>
          \A x \in ScoresOf(s_result.scoring_result) : 0 <= x /\ x <= 10000
    /\ (s_again # NoResult) =>
          /\ \A x \in ScoresOf(s_again.scoring_result) : 0 <= x /\ x <= 10000
          /\ (s_again.at = s_result.at)
                => s_again.scoring_result = s_result.scoring_result

\* a post of the critical tier was scored at the cap, twice at one instant,
\* the second time with the first score attached
C20_Witness ==
    /\ s_result # NoResult
    /\ s_again # NoResult
    /\ s_again.at = s_result.at
    /\ s_post.score = s_result.scoring_result
    /\ s_post.commercial_signals # NoSignals
    /\ s_post.commercial_signals.multiplier = 30
    /\ s_result.scoring_result.total_score = 10000
    /\ s_again.scoring_result.total_score = 10000

(***************************************************************************)
(* Properties of run_session                                               *)
(***************************************************************************)
\* the audit row of a tweet
RowOf(table, tweet_id) == CHOOSE row \in table : row.tweet_id = tweet_id

HasRow(table, tweet_id) == \E row \in table : row.tweet_id = tweet_id

SeqRange(seq) == {seq[i] : i \in 1..Len(seq)}

\* C21: a run that the active-hours gate stops ends at once with status
\* 'skipped': the step that starts it leaves the audit table and the
\* approval queue as they were, and as long as the status is 'skipped'
\* the run is over, no scraper, LLM or Telegram call has been made and no
\* post was handed on or queued.
C21_InactiveGateSkipsRun ==
    [][(r_status' = "skipped") =>
          /\ r_pc' = "idle"
          /\ r_calls' = {}
          /\ r_scraped' = <<>>
          /\ r_handed' = <<>>
          /\ r_queued' = <<>>
          /\ scraped_tweets' = scraped_tweets
          /\ approval_queue' = approval_queue
          /\ request_log' = request_log]_vars

\* the second run was skipped after the first had written audit rows
C21_Witness ==
    /\ r_status = "skipped"
    /\ r_no = 2
    /\ r_pc = "idle"
    /\ scraped_tweets # {}
    /\ approval_queue # {}

\* C22: a turn of the drafting loop in which generate_reply raises logs
\* the post as 'error' with the exception message, queues nothing, does
\* not end the run with an error and goes on with the next post of the
\* batch (or to step 7 after the last); a post logged as 'error' is not
\* among the posts queued by the run, and every run that reached the
\* drafting step ends with status 'success'.
C22_DraftErrorKeepsBatchGoing ==
    [][/\ (r_pc = "draft" /\ r_handed' # r_handed /\ r_with_replies' = r_with_replies) =>
           LET posts_to_process == PostsToProcess(r_posts)
               post == posts_to_process[r_i]
           IN  /\ r_handed' = Append(r_handed, post.id)
               /\ HasRow(scraped_tweets', post.id)
               /\ RowOf(scraped_tweets', post.id).status = "error"
               /\ RowOf(scraped_tweets', post.id).rejection_reason \in DraftErrors
               /\ approval_queue' = approval_queue
               /\ r_status' # "error"
               /\ (r_i < Len(posts_to_process)) =>
                     /\ r_pc' = "draft"
                     /\ r_i' = r_i + 1
                     /\ r_posts' = r_posts
               /\ (r_i = Len(posts_to_process)) =>
                     \/ r_pc' = "send" /\ r_posts' = r_with_replies
                     \/ r_pc' = "idle" /\ r_status' = "success"
       /\ \A row \in scraped_tweets' :
             (row.status = "error") => row.tweet_id \notin SeqRange(r_queued')
       /\ (r_pc' = "idle" /\ r_handed' # <<>>) => r_status' = "success"]_vars

\* the first of two posts failed in drafting, the second was queued, and
\* the run ended with status 'success'
C22_Witness ==
    /\ r_pc = "idle"
    /\ r_status = "success"
    /\ Len(r_handed) = 2
    /\ HasRow(scraped_tweets, r_handed[1])
    /\ RowOf(scraped_tweets, r_handed[1]).status = "error"
    /\ RowOf(scraped_tweets, r_handed[1]).rejection_reason = <<"Daily budget exceeded">>
    /\ r_queued = <<r_handed[2]>>
    /\ RowOf(scraped_tweets, r_handed[2]).status = "queued"

\* the scraped post of the run with the id
ScrapedPost(tweet_id) == r_scraped[CHOOSE i \in 1..Len(r_scraped) : r_scraped[i].id = tweet_id]

\* the position of the post in the list step 1 returned
ScrapePosition(tweet_id) == CHOOSE i \in 1..Len(r_scraped) : r_scraped[i].id = tweet_id

\* the ids of the sequence come in the relative order of the scrape
InScrapeOrder(ids) ==
    \A i, j \in 1..Len(ids) : i < j => ScrapePosition(ids[i]) < ScrapePosition(ids[j])

\* the ids of the first sequence, in order, are among those of the second
KeepsOrderOf(ids, others) ==
    \A i, j \in 1..Len(ids) :
        i < j => \E k, l \in 1..Len(others) :
                    k < l /\ others[k] = ids[i] /\ others[l] = ids[j]

\* C23 as stated: the posts are handed to generate_reply, and their queue
\* entries are created, in the relative order in which they were scraped.
C23_ProcessedInScrapeOrder ==
    /\ InScrapeOrder(r_handed)
    /\ InScrapeOrder(r_queued)

\* the total score the run gives the post
TotalScoreOf(tweet_id) ==
    ScorePost(Analyzed(ScrapedPost(tweet_id)), ScoreEpoch).total_score

\* C23, amended: the posts are handed to generate_reply in descending order
\* of total score; posts with the same total come in the order of the
\* priority ranking (tier, then descending commercial score), and posts
\* equal in that too in scrape order; the queue entries are created in the
\* order in which the posts were handed to generate_reply.
C23_ProcessedInRankOrder ==
    /\ \A i, j \in 1..Len(r_handed) :
          i < j =>
            LET a == Analyzed(ScrapedPost(r_handed[i]))
                b == Analyzed(ScrapedPost(r_handed[j]))
            IN  \/ TotalScoreOf(a.id) > TotalScoreOf(b.id)
                \/ /\ TotalScoreOf(a.id) = TotalScoreOf(b.id)
                   /\ \/ PriorityKeyLess(a, b)
                      \/ /\ ~PriorityKeyLess(b, a)
                         /\ ScrapePosition(a.id) < ScrapePosition(b.id)
    /\ KeepsOrderOf(r_queued, r_handed)

\* two posts were drafted and queued in the reverse of their scrape order:
\* the critical post scraped second scores higher than the medium post
C23_Witness ==
    /\ Len(r_scraped) = 2
    /\ r_handed = <<r_scraped[2].id, r_scraped[1].id>>
    /\ r_queued = r_handed
    /\ TotalScoreOf(r_scraped[2].id) > TotalScoreOf(r_scraped[1].id)

\* C24: an audit row has status 'queued' only if an approval-queue entry
\* for its tweet has been committed, and a turn of step 7 whose insert is
\* not committed leaves the audit table as it was.
C24_QueuedOnlyAfterCommit ==
    [][/\ \A row \in scraped_tweets' :
             (row.status = "queued")
               => \E entry \in approval_queue' : entry.tweet_id = row.tweet_id
       /\ (r_pc = "send" /\ r_sub = "insert" /\ approval_queue' = approval_queue)
             => scraped_tweets' = scraped_tweets]_vars

\* the run ended with one draft queued and one draft whose insert failed,
\* still logged as 'reply_generated'
C24_Witness ==
    /\ r_pc = "idle"
    /\ r_status = "success"
    /\ Len(r_handed) = 2
    /\ Len(r_queued) = 1
    /\ \E row \in scraped_tweets :
          /\ row.status = "reply_generated"
          /\ row.tweet_id \in SeqRange(r_handed) \ SeqRange(r_queued)
          /\ ~\E entry \in approval_queue : entry.tweet_id = row.tweet_id
    /\ \E row \in scraped_tweets :
          row.status = "queued" /\ row.tweet_id \in SeqRange(r_queued)

\* the statuses that name the stage a post was dropped at
DropStatuses == {"filtered", "deduplicated", "error"}

\* C25 as stated: when a run has ended, every post it scraped and did not
\* queue has an audit row whose status names the stage that dropped it and
\* whose reason is the reason that stage produced (for the base filter,
\* the reason filter_tweet returned).
C25_EveryDropHasItsReason ==
    (r_pc = "idle" /\ r_status \in {"ended", "success"}) =>
        \A i \in 1..Len(r_scraped) :
            (r_scraped[i].id \notin SeqRange(r_queued)) =>
                /\ HasRow(scraped_tweets, r_scraped[i].id)
                /\ RowOf(scraped_tweets, r_scraped[i].id).status \in DropStatuses
                /\ RowOf(scraped_tweets, r_scraped[i].id).rejection_reason # NoReason
                /\ (r_scraped[i].base.outcome = "reject") =>
                      RowOf(scraped_tweets, r_scraped[i].id).rejection_reason
                        = r_scraped[i].base.reason

\* C26: is_active_hours answers true exactly when the time of day in the
\* configured timezone is at or after the start and before the end of the
\* window; with the end at 00:00 it answers true exactly when the time of
\* day is at or after the start.
C26_ActiveExactlyInsideWindow ==
    (t_result # NoResult) =>
        LET time_of_day == (t_check_time + t_utc_offset) % (24 * 60)
        IN  t_result.is_active
              <=> IF t_active_hours.end = 0
                  THEN time_of_day >= t_active_hours.start
                  ELSE t_active_hours.start <= time_of_day
                       /\ time_of_day < t_active_hours.end

\* 23:30 UTC in summer is 00:30 in London: under the window that ends at
\* midnight the gate is closed, one minute before local midnight it is open
C26_Witness ==
    /\ t_result # NoResult
    /\ t_active_hours = [start |-> 7 * 60, end |-> 0]
    /\ t_utc_offset = 60
    /\ t_check_time = 23 * 60 + 30
    /\ ~t_result.is_active

\* C27: validate returns the same result for the same text and platform in
\* every run of the program: the result of the call made in this run (under
\* this run's hash seed) equals the result under the other seed, violations
\* in the same order and score included.
C27_SameResultInEveryRun ==
    (v_result # NoResult) =>
        \A other_seed \in {0, 1} :
            v_result = Validate(v_text, v_platform, strict_mode, other_seed)

\* C28: is_processed(id) answers false as long as mark_processed was never
\* called for id and true ever after it was called, whatever other ids were
\* marked in between; however often an id is marked, the table holds
\* exactly one row for it (and none for an id never marked).
C28_ProcessedIffEverMarked ==
    /\ (db_answer # NoResult) =>
           (db_answer.processed <=> db_answer.post_id \in db_marked)
    /\ \A post_id \in ScoutPostIds :
           Len(SelectSeq(processed_posts, LAMBDA row : row.post_id = post_id))
             = IF post_id \in db_marked THEN 1 ELSE 0

\* t3_a was marked, then t3_b, then t3_a again; t3_a is still answered as
\* processed and has one row, the one of the second marking
C28_Witness ==
    /\ Len(processed_posts) = 2
    /\ processed_posts[1].post_id = "t3_b"
    /\ processed_posts[1].processed_at = 2
    /\ processed_posts[2].post_id = "t3_a"
    /\ processed_posts[2].processed_at = 3
    /\ db_answer = [post_id |-> "t3_a", processed |-> TRUE]

\* the checks of check_tweet_eligibility in the order the claim gives them
EligibilityCheckOrder ==
    <<"has_replied_to_tweet", "is_author_on_cooldown", "hour_count", "day_count">>

EligibilityReasonOf ==
    <<"Already replied to tweet", "Author on cooldown", "Hourly limit reached",
      "Daily limit reached">>

\* whether check i fails for the call recorded in d_call, stated on the rows
CheckFails(i) ==
    CASE i = 1 -> \E r \in replied_tweets :
                      /\ r.tweet_id = d_call.tweet_id
                      /\ r.replied_at >= d_call.at - HistoryDays * 24
      [] i = 2 -> \E r \in replied_tweets :
                      /\ r.author_username = d_call.author_username
                      /\ r.replied_at >= d_call.at - SameAuthorCooldownHours
      [] i = 3 -> Cardinality({r \in replied_tweets : r.replied_at >= d_call.at - 1})
                      >= MaxRepliesPerHour
      [] i = 4 -> Cardinality({r \in replied_tweets : r.replied_at >= d_call.at - 24})
                      >= MaxRepliesPerDay

\* C29: check_tweet_eligibility runs its checks in the order already-replied,
\* author cooldown, hourly count, daily count; it returns the reason of the
\* first check that fails and runs none of the checks after it; the hourly
\* (daily) check fails exactly when the rows of the last hour (day) number
\* at least the cap.
C29_FirstFailingCheckDecides ==
    (d_call.op = "check") =>
        LET failing == {i \in 1..4 : CheckFails(i)}
        IN  IF failing = {}
            THEN /\ d_result.eligible
                 /\ d_queries = EligibilityCheckOrder
            ELSE LET first == CHOOSE i \in failing : \A j \in failing : i <= j
                 IN  /\ ~d_result.eligible
                     /\ d_result.reason[1] = EligibilityReasonOf[first]
                     /\ d_queries = SubSeq(EligibilityCheckOrder, 1, first)

\* neither the tweet nor its author is in the history, and the rows of the
\* last hour reach both caps: the answer names the hourly limit, and the
\* daily count was not asked for
C29_Witness ==
    /\ d_call.op = "check"
    /\ ~CheckFails(1)
    /\ ~CheckFails(2)
    /\ CheckFails(3)
    /\ CheckFails(4)
    /\ d_result.reason[1] = "Hourly limit reached"
    /\ d_queries = <<"has_replied_to_tweet", "is_author_on_cooldown", "hour_count">>

\* C30: filter_and_rank with apply_threshold=True returns exactly the posts
\* whose score result has meets_threshold = true, and with
\* apply_threshold=False every post handed in; in both cases in descending
\* order of total_score.
C30_KeepsExactlyThePostsMeetingTheThreshold ==
    (fr_result # NoResult) =>
        LET out == fr_result.posts
            scored == {Scored(fr_posts[i], s_now) : i \in 1..Len(fr_posts)}
            expected == IF fr_apply_threshold
                        THEN {p \in scored : p.score.meets_threshold}
                        ELSE scored
        IN  /\ {out[i] : i \in 1..Len(out)} = expected
            /\ Len(out) = Cardinality(expected)
            /\ \A i, j \in 1..Len(out) :
                   i < j => out[i].score.total_score >= out[j].score.total_score

\* the stages of run_session in the order the claim gives them
StageOrder == <<"scrape", "base", "commercial", "score", "dedup", "draft", "send">>

StageIndex(pc) == CHOOSE n \in 1..Len(StageOrder) : StageOrder[n] = pc

\* C31: run_session goes through scrape, eligibility filter, priority
\* filter, scoring, deduplication, drafting, queueing in this order; when a
\* stage leaves the working set empty the run ends there, without an LLM
\* call or a queue entry by a later stage and without an error status or
\* an alert.
C31_StagesInOrderAndEmptySetEndsRun ==
    [][/\ (r_pc' # r_pc /\ r_pc' # "idle") =>
              IF r_pc = "idle"
              THEN r_pc' = "scrape"
              ELSE StageIndex(r_pc') = StageIndex(r_pc) + 1
       /\ ("llm" \in r_calls' /\ "llm" \notin r_calls) => r_pc = "draft"
       /\ (approval_queue' # approval_queue) => r_pc = "send"
       /\ (r_pc # "idle" /\ Len(r_posts') = 0) =>
              /\ r_pc' = "idle"
              /\ r_status' \in {"ended", "success"}
              /\ "telegram" \notin r_calls'
              /\ approval_queue' = approval_queue
              /\ r_pc # "draft" => "llm" \notin r_calls']_vars

\* the first run scraped posts, the deduplication rejected all that were
\* left, and the run ended with nothing drafted and nothing queued
C31_Witness ==
    /\ r_no = 1
    /\ r_pc = "idle"
    /\ r_status = "ended"
    /\ Len(r_scraped) > 0
    /\ \E row \in scraped_tweets : row.status = "deduplicated"
    /\ r_calls = {"scraper"}
    /\ r_handed = <<>>
    /\ approval_queue = {}

\* C32: when attempt k < max_attempts is invalid, the user prompt of attempt
\* k+1 is the base prompt followed by the text of attempt k and the
\* violations of attempt k, and of no earlier attempt; when the last attempt
\* is invalid the prompt is left as it is and generate_reply raises without
\* another call.
C32_FeedbackOfPreviousAttemptOnly ==
    [][/\ (gpc = "calling" /\ gpc' = "loop") =>
              LET text == Strip(c_result.content)
                  verdict == Validate(text, g_platform, strict_mode, hash_seed)
              IN  IF attempt < max_attempts
                  THEN user_prompt' = [feedback |-> TRUE,
                                       previous_attempt |-> text,
                                       violations |-> verdict.violations]
                  ELSE user_prompt' = user_prompt
       /\ (gpc = "loop" /\ attempt > max_attempts) =>
              /\ gpc' \in {"loop", "raised"}
              /\ cpc' = "idle"
              /\ g_calls' = g_calls
              /\ http_requests' = http_requests
              /\ user_prompt' = user_prompt]_vars

\* the first two of three attempts were invalid: the third prompt carries
\* the feedback of the second attempt
C32_Witness ==
    /\ gpc = "loop"
    /\ max_attempts = 3
    /\ attempt = 3
    /\ g_validated = <<FALSE, FALSE>>
    /\ user_prompt.feedback
    /\ Len(user_prompt.violations) > 0

\* C33: with several callers inside generate_completion of one client no
\* update of the counters is lost: whenever no call is running,
\* total_cost_usd is the sum of the costs of the calls that returned and
\* total_tokens the sum of their tokens.
C33_NoUpdateLost ==
    (\A th \in Threads : th_pc[th] = "idle") =>
        /\ total_cost_usd = returned_cost
        /\ total_tokens = returned_tokens

\* the step is a call of cleanup_old_records
CleanupStep == d_call'.op = "cleanup" /\ d_call'.at = utcnow /\ utcnow' = utcnow

\* C34: cleanup_old_records deletes exactly the rows whose replied_at is
\* older than the retention cutoff and leaves the others as they are; run at
\* any point, it changes neither the answer of any of the queries of
\* check_tweet_eligibility nor the decision of the check, for any item and
\* author, now or at any later instant.
C34_CleanupChangesNoDecision ==
    [][CleanupStep =>
         /\ replied_tweets' =
                {r \in replied_tweets : utcnow - r.replied_at <= HistoryDays * 24}
         /\ \A t \in {i \in Instants : i >= utcnow} :
                /\ Cardinality({r \in replied_tweets' : r.replied_at >= t - 1})
                     = Cardinality({r \in replied_tweets : r.replied_at >= t - 1})
                /\ Cardinality({r \in replied_tweets' : r.replied_at >= t - 24})
                     = Cardinality({r \in replied_tweets : r.replied_at >= t - 24})
                /\ \A tweet_id \in TweetIds, author_username \in Usernames :
                       /\ HasRepliedToTweet(tweet_id, replied_tweets', t)
                            <=> HasRepliedToTweet(tweet_id, replied_tweets, t)
                       /\ IsAuthorOnCooldown(author_username, replied_tweets', t)
                            <=> IsAuthorOnCooldown(author_username, replied_tweets, t)
                       /\ CheckTweetEligibility(tweet_id, author_username,
                                                replied_tweets', t)
                            = CheckTweetEligibility(tweet_id, author_username,
                                                    replied_tweets, t)]_vars

\* a cleanup deleted a row and kept another
C34_Witness ==
    /\ d_call.op = "cleanup"
    /\ d_call.at = utcnow
    /\ d_result.deleted > 0
    /\ replied_tweets # {}

\* C35: the daily budget bounds the spend of the process across its
\* sessions: a session that started when the cost of the LLM calls of all
\* sessions so far had reached daily_budget_usd sends no HTTP request to
\* the LLM.
C35_BudgetHoldsAcrossSessions ==
    p_over => request_log = "none"

\* no two posts of the list are by the same author
OneAuthorOnce(ps) ==
    \A i, j \in 1..Len(ps) : ps[i].author = ps[j].author => i = j

\* C36: the author cooldown applies inside a batch: the posts the
\* deduplication batch filter returns as eligible are by pairwise different
\* authors, and so are the posts for which a reply was drafted in one
\* session.
C36_OneAuthorOncePerBatch ==
    [][/\ (spc = "scored" /\ spc' # "scored") => OneAuthorOnce(posts')
       /\ (spc = "deduplicated" /\ spc' = "drafted") => OneAuthorOnce(posts')]_vars

\* the place of an audit status in the stage order
AuditStage(status) ==
    CASE status = "scraped" -> 1
      [] status \in {"filtered", "analyzed"} -> 2
      [] status = "scored" -> 3
      [] status \in {"deduplicated", "reply_generated", "error"} -> 4
      [] status = "queued" -> 5

\* C37: there is at most one audit row per post id, and no step moves the
\* status of a row back along the stage order; in particular a row that
\* has reached 'queued' stays 'queued', in the same and in every following
\* session.
C37_AuditStatusOnlyMovesForward ==
    [][/\ \A a, b \in scraped_tweets' : a.tweet_id = b.tweet_id => a = b
       /\ \A old \in scraped_tweets : \A new \in scraped_tweets' :
             new.tweet_id = old.tweet_id
                => AuditStage(new.status) >= AuditStage(old.status)]_vars

\* C38: every queue entry committed during a session was sent for
\* approval: when run_session has ended, replies_sent_for_approval equals
\* the number of ReplyQueue entries committed in the session.
C38_EveryCommittedEntryWasSent ==
    (r_pc = "idle" /\ r_status = "success") => r_sent = Len(r_queued)

\* C39: in one session the Draft Generator is invoked for at most
\* max_replies_per_session posts, and the posts it is invoked for are the
\* first posts of the deduplicated list, in order; this also holds when
\* drafting of a post inside the cap failed.
C39_DraftsOnlyWithinSessionCap ==
    [][(r_pc = "draft") =>
          /\ Len(r_handed') <= max_replies_per_session
          /\ Len(r_handed') <= Len(r_posts)
          /\ \A k \in 1..Len(r_handed') : r_handed'[k] = r_posts[k].id]_vars

\* a first session with a cap of one ended: the one post handed to the
\* Draft Generator failed, and another post that was scored and passed
\* deduplication was never handed to it
C39_Witness ==
    /\ r_no = 1
    /\ r_pc = "idle"
    /\ r_status = "success"
    /\ max_replies_per_session = 1
    /\ Len(r_handed) = 1
    /\ RowOf(scraped_tweets, r_handed[1]).status = "error"
    /\ \E row \in scraped_tweets :
          row.status = "scored" /\ row.tweet_id \notin SeqRange(r_handed)

\* C40: get_time_until_active(t) returns none exactly when
\* is_active_hours(t) is true; otherwise it returns a duration d > 0 such
\* that is_active_hours(t + d) is true and no instant of [t, t + d) is
\* active.
C40_UntilActiveIsTheNextActiveInstant ==
    ("until_active" \in DOMAIN w_result) =>
        LET r == w_result.until_active
            active(instant) == IsActiveAt(w_active_hours, w_zone, instant)
        IN  /\ (r = NoneValue) <=> active(w_from_time)
            /\ (r # NoneValue) =>
                  /\ r.delta > 0
                  /\ active(w_from_time + r.delta)
                  /\ \A instant \in w_from_time..(w_from_time + r.delta - 1) :
                        ~active(instant)

====
